---- MODULE Spec2Model ----
(***************************************************************************)
(* The kcp virtual-workspace cluster provider: the discovery loop of       *)
(* Provider.Run (add / delete handlers on the wildcard informer), the      *)
(* cluster registry behind one RWMutex, Provider.Get, and the scoped       *)
(* cache / scoped informer views over the shared wildcard informer.        *)
(*                                                                         *)
(* Event handlers are invocations that run concurrently (section 5 of the  *)
(* specification: callbacks are driven by the watch engine's parallel      *)
(* worker threads; the double-checked locking of AddFunc and the           *)
(* "p.clusters[clusterName] == cl" guard of the rollback are written for   *)
(* exactly that).  Every statement that touches the lock or a registry map *)
(* is one step.                                                            *)
(***************************************************************************)
EXTENDS Naturals, Integers, Sequences, FiniteSets, TLC

\* ---------------------------------------------------------------- bounds
\* Handler invocations that may be in flight at the same time.
MaxHandlers == 2
\* Add events the discovery informer delivers in one run.
MaxAdds == 2
\* Resource versions an object of the shared per-kind informer goes through.
MaxRv == 2
MaxInformers == 3
MaxStack == 3
MaxKeys == 3
MaxQueue == 2

\* ------------------------------------------------------------ the universe
\* Logical cluster identities.
Names == {"c1", "c2"}

\* Discovery objects (e.g. APIBindings): two live in c1, one in c2.
DiscObjs ==
  { [cluster |-> "c1", name |-> "a"],
    [cluster |-> "c1", name |-> "b"],
    [cluster |-> "c2", name |-> "a"] }

NoObj == [cluster |-> "", name |-> ""]

Tids == 1 .. MaxHandlers

\* The goroutine that calls Provider.Get (an id next to the handlers').
Getter == MaxHandlers + 1

\* logicalcluster.From(obj): the value of the object's kcp.io/cluster annotation.
From(o) == o.cluster

\* ClusterIndexFunc: the index value of an object in the by-cluster index.
ClusterIndexFunc(o) == {From(o)}

\* Indexer.IndexKeys(ClusterIndexName, value): the stored objects whose index
\* values contain value.
IndexKeys(items, value) == {o \in items : value \in ClusterIndexFunc(o)}

\* ------------------------------------------------------------------ state
VARIABLES
  clusters,     \* p.clusters : identity -> scoped cluster (its id)
  cancelFns,    \* p.cancelFns: identity -> cancel function (id of its context)
  lockWriter,   \* p.lock: the holder of the write lock, 0 when free
  lockReaders,  \* p.lock: the holders of the read lock
  ctxs,         \* every context.WithCancel(ctx) of AddFunc, in creation order:
                \*   name, built (newScopedCluster succeeded), eng (Engage:
                \*   "no", "in", "ok", "err"), cancelled (its cancel was called)
  store,        \* the discovery informer's indexer: objects present
  h,            \* handler invocations: pc, obj (event object), cl (cluster built)
  nAdds,        \* add events delivered so far
  delSeen,      \* identities for which a delete event was delivered
  get,          \* the Provider.Get call: pc, name, res (0 = not found)
  \* the earlier Provider (one wildcard cluster, clusters built on demand by Get)
  wsClusters,   \* p.clusters : name -> workspaced cluster (its id)
  wsLock,       \* p.lock: w (write holder, 0 when free), r (read holders)
  wsGet,        \* the Get calls: pc, name, cl (cluster built), res (0: error)
  wsRun,        \* Provider.Run: its position, whether a manager was given, whether
                \* its context is cancelled, and the state of the cache Start task
  wsBuilt,      \* workspaced clusters constructed so far
  wsAccess,     \* the last access to p.clusters: op, and whether its goroutine
                \* held the write lock (w) or the read lock (r)
  wsFatal,      \* the Go runtime stopped the process ("concurrent map writes")
  \* the scoped views over one shared per-kind informer of the wildcard cache
  informer,     \* the tracker's entry for the kind: "none", or the constructor
                \* that built it ("kcp": kcpinformers, "k8s": client-go)
  infStore,     \* the informer's indexer: store key -> object
  infIndex,     \* its ClusterIndexName index: index value -> store keys
  regs,         \* handlers registered through scoped informers: bound, resync
  lastEvent,    \* the last event of the shared stream: kind, obj, old
  delivered,    \* the callbacks that event made on the wrapped handlers
  rd,           \* the call made on a scoped view since the last event: op,
                \* bound, name (of the object read, or the identity of the
                \* scoped cache an accessor returned), res, err
  \* Provider.Run
  wc,           \* the wildcard cache: state ("new", "running", "stopped"), calls
                \* (of Start), synced, store (discovery objects), adds
  prov          \* per provider: pc of Run, err it returned, ctxDone (the run
                \* context), task (the Start task of the group), handler
                \* (registered), clusters, cancelFns, ctxs (the contexts its
                \* add handler made: name, parent, eng, cancelled, reg (its
                \* cluster and cancel function are in the maps))
  ,
  \* the informer tracker of one wildcard cache
  tracker,      \* informerTracker: lock, and one map gvk -> informer for each
                \* of Structured, Unstructured, Metadata
  trMade,       \* the number of informers the NewInformer closure constructed
  trCall,       \* the last call on the tracker: op, kind, cat, inf, out
  \* the index function installed by wildcardCache.IndexField
  ixCall,       \* its last call: obj, keys (the extractor's result), out
  \* the enqueue adapter
  queue,        \* the requests handed to q.Add, in order
  evt           \* the last event given to the adapter: kind, obj, old

\* the provider of provider.go
pVars == << clusters, cancelFns, lockWriter, lockReaders, ctxs, store, h, nAdds,
            delSeen, get >>
\* the earlier provider
wsVars == << wsClusters, wsLock, wsGet, wsRun, wsBuilt, wsAccess, wsFatal >>

\* the scoped views
scVars == << informer, infStore, infIndex, regs, lastEvent, delivered, rd >>

\* Provider.Run
runVars == << wc, prov >>

\* the informer tracker
trVars == << tracker, trMade, trCall >>

\* the index function and the enqueue adapter
ixVars == << ixCall >>
eqVars == << queue, evt >>

vars == << pVars, wsVars, scVars, runVars, trVars, ixVars, eqVars >>

\* what an action of one component leaves alone
NotP == << wsVars, scVars, runVars, trVars, ixVars, eqVars >>
NotWs == << pVars, scVars, runVars, trVars, ixVars, eqVars >>
NotSc == << pVars, wsVars, runVars, trVars, ixVars, eqVars >>
NotRun == << pVars, wsVars, scVars, trVars, ixVars, eqVars >>
NotTr == << pVars, wsVars, scVars, runVars, ixVars, eqVars >>
NotIx == << pVars, wsVars, scVars, runVars, trVars, eqVars >>
NotEq == << pVars, wsVars, scVars, runVars, trVars, ixVars >>

\* No index call made, no event given to the adapter yet.
NoIxCall == [obj |-> NoObj, keys |-> << >>, out |-> << >>]
Nil == [isNil |-> TRUE, typed |-> FALSE]
NoEvt == [kind |-> "none", obj |-> Nil, old |-> Nil]

\* No call made on the tracker yet.
NoCall == [op |-> "none", kind |-> "", cat |-> "", inf |-> 0, out |-> ""]

\* Providers built by New; the second one is handed the wildcard cache of the
\* first through Options.WildcardCache.
Provs == {1, 2}

\* A provider that New has not built yet.
NoProv ==
  [pc |-> "none", err |-> "", ctxDone |-> FALSE, task |-> "none",
   handler |-> FALSE, clusters |-> << >>, cancelFns |-> << >>, ctxs |-> {}]

\* No event delivered yet, no read made yet.
NoEvent == [kind |-> "none", obj |-> NoObj, old |-> NoObj]
NoRead == [op |-> "none", bound |-> "", name |-> "", res |-> {}, err |-> ""]

IdleH == [pc |-> "idle", obj |-> NoObj, cl |-> 0, raw |-> ""]
\* An error value: its message and the sentinel errors it wraps (errors.Is).
\* fmt.Errorf without %w wraps none.
NoErr == [msg |-> "", is |-> {}]
GetNotFound == [msg |-> "cluster not found", is |-> {}]

IdleGet == [pc |-> "idle", name |-> "", res |-> 0, err |-> NoErr]

\* The goroutines that call Get on the earlier provider, and the one in Run.
WsGetters == {1, 2}
WsRunner == 3
IdleWsGet == [pc |-> "idle", name |-> "", cl |-> 0, res |-> 0]

\* Go map operations.
MapPut(m, k, v) == [x \in DOMAIN m \cup {k} |-> IF x = k THEN v ELSE m[x]]
MapDelete(m, k) == [x \in DOMAIN m \ {k} |-> m[x]]
\* v, ok := m[k] (0: no entry)
EntryOf(m, Y) == IF Y \in DOMAIN m THEN m[Y] ELSE 0

\* sync.RWMutex
CanLock == lockWriter = 0 /\ lockReaders = {}
CanRLock == lockWriter = 0

\* New: empty maps, free lock.
Init ==
  /\ clusters = << >>
  /\ cancelFns = << >>
  /\ lockWriter = 0
  /\ lockReaders = {}
  /\ ctxs = << >>
  /\ store = {}
  /\ h = [t \in Tids |-> IdleH]
  /\ nAdds = 0
  /\ delSeen = {}
  /\ get = IdleGet
  /\ wsClusters = << >>
  /\ wsLock = [w |-> 0, r |-> {}]
  /\ wsGet = [g \in WsGetters |-> IdleWsGet]
  /\ wsRun = [pc |-> "new", mgr |-> FALSE, ctxDone |-> FALSE, cache |-> "new"]
  /\ wsBuilt = 0
  /\ wsAccess = [op |-> "none", w |-> FALSE, r |-> FALSE]
  /\ wsFatal = FALSE
  /\ informer = "none"
  /\ infStore = << >>
  /\ infIndex = [v \in Names |-> {}]
  /\ regs = {}
  /\ lastEvent = NoEvent
  /\ delivered = {}
  /\ rd = NoRead
  /\ wc = [state |-> "new", calls |-> 0, synced |-> FALSE, store |-> {}, adds |-> 0]
  /\ prov = [p \in Provs |-> NoProv]
  /\ tracker = [lock |-> "free", Structured |-> << >>, Unstructured |-> << >>,
                Metadata |-> << >>]
  /\ trMade = 0
  /\ trCall = NoCall
  /\ ixCall = NoIxCall
  /\ queue = << >>
  /\ evt = NoEvt

Goto(t, p) == h' = [h EXCEPT ![t].pc = p]
Return(t) == h' = [h EXCEPT ![t] = IdleH]
NameOf(t) == From(h[t].obj)

\* The engine hands an event to a free worker: the first idle invocation slot.
FreeWorker(t) == h[t].pc = "idle" /\ \A u \in Tids : u < t => h[u].pc # "idle"

\* ------------------------------------------------- the discovery informer
\* An object appears on the wildcard stream: the indexer stores it and the
\* add handler is invoked with it.
InformerAdd(t, o) ==
  /\ FreeWorker(t)
  /\ o \notin store
  /\ nAdds < MaxAdds
  /\ store' = store \cup {o}
  /\ nAdds' = nAdds + 1
  /\ h' = [h EXCEPT ![t] = [pc |-> "a_rlock", obj |-> o, cl |-> 0, raw |-> ""]]
  /\ UNCHANGED << NotP, clusters, cancelFns, lockWriter, lockReaders, ctxs, delSeen,
                  get >>

\* An object disappears: the indexer drops it and the delete handler is invoked
\* with the object itself, so that obj.(client.Object) succeeds (166).
InformerDelete(t, o) ==
  /\ FreeWorker(t)
  /\ o \in store
  /\ store' = store \ {o}
  /\ delSeen' = delSeen \cup {From(o)}
  /\ h' = [h EXCEPT ![t] = [pc |-> "d_index", obj |-> o, cl |-> 0, raw |-> ""]]
  /\ UNCHANGED << NotP, clusters, cancelFns, lockWriter, lockReaders, ctxs, nAdds,
                  get >>

\* ------------------------------------------------------ AddFunc (117-164)
\* p.lock.RLock()
AddRLock(t) ==
  /\ h[t].pc = "a_rlock"
  /\ CanRLock
  /\ lockReaders' = lockReaders \cup {t}
  /\ Goto(t, "a_fast")
  /\ UNCHANGED << NotP, clusters, cancelFns, lockWriter, ctxs, store, nAdds, delSeen,
                  get >>

\* AddFastPath that never returns early: the handler goes on to the write
\* lock whether or not the identity is registered.
AddFastPath_NoReturn(t) ==
  /\ h[t].pc = "a_fast"
  /\ lockReaders' = lockReaders \ {t}
  /\ Goto(t, "a_lock")
  /\ UNCHANGED << NotP, clusters, cancelFns, lockWriter, ctxs, store, nAdds, delSeen,
                  get >>

\* fast path: if _, ok := p.clusters[clusterName]; ok { RUnlock; return }; RUnlock
AddFastPath(t) ==
  /\ h[t].pc = "a_fast"
  /\ lockReaders' = lockReaders \ {t}
  /\ IF NameOf(t) \in DOMAIN clusters THEN Return(t) ELSE Goto(t, "a_lock")
  /\ UNCHANGED << NotP, clusters, cancelFns, lockWriter, ctxs, store, nAdds, delSeen,
                  get >>

\* slow path: p.lock.Lock()
AddLock(t) ==
  /\ h[t].pc = "a_lock"
  /\ CanLock
  /\ lockWriter' = t
  /\ Goto(t, "a_recheck")
  /\ UNCHANGED << NotP, clusters, cancelFns, lockReaders, ctxs, store, nAdds, delSeen,
                  get >>

\* AddRecheck without the second look at the registry (no double check).
AddRecheck_NoCheck(t) ==
  /\ h[t].pc = "a_recheck"
  /\ Goto(t, "a_new")
  /\ UNCHANGED << NotP, clusters, cancelFns, lockWriter, lockReaders, ctxs, store,
                  nAdds, delSeen, get >>

\* if _, ok := p.clusters[clusterName]; ok { Unlock; return }
AddRecheck(t) ==
  /\ h[t].pc = "a_recheck"
  /\ IF NameOf(t) \in DOMAIN clusters
       THEN lockWriter' = 0 /\ Return(t)
       ELSE lockWriter' = lockWriter /\ Goto(t, "a_new")
  /\ UNCHANGED << NotP, clusters, cancelFns, lockReaders, ctxs, store, nAdds, delSeen,
                  get >>

\* AddNewCluster that hands out the context an earlier cluster of the same
\* identity had, cancelled or not, instead of a new one.
AddNewCluster_Stale(t, ok) ==
  /\ h[t].pc = "a_new"
  /\ ctxs' = Append(ctxs, [name |-> NameOf(t), built |-> ok, eng |-> "no",
                           cancelled |-> ~ok \/ \E i \in DOMAIN ctxs :
                                             ctxs[i].name = NameOf(t)])
  /\ IF ok
       THEN /\ h' = [h EXCEPT ![t].pc = "a_put1", ![t].cl = Len(ctxs) + 1]
            /\ lockWriter' = lockWriter
       ELSE /\ Return(t)
            /\ lockWriter' = 0
  /\ UNCHANGED << NotP, clusters, cancelFns, lockReaders, store, nAdds, delSeen, get >>

\* AddNewCluster whose error path returns without calling cancel and without
\* releasing the write lock.
AddNewCluster_LeakOnError(t, ok) ==
  /\ h[t].pc = "a_new"
  /\ ctxs' = Append(ctxs, [name |-> NameOf(t), built |-> ok, eng |-> "no",
                           cancelled |-> FALSE])
  /\ IF ok
       THEN h' = [h EXCEPT ![t].pc = "a_put1", ![t].cl = Len(ctxs) + 1]
       ELSE Return(t)
  /\ UNCHANGED << NotP, clusters, cancelFns, lockWriter, lockReaders, store, nAdds,
                  delSeen, get >>

\* clusterCtx, cancel := context.WithCancel(ctx); cl, err := newScopedCluster(...)
\* On error: cancel(); Unlock; return.
AddNewCluster(t, ok) ==
  /\ h[t].pc = "a_new"
  /\ ctxs' = Append(ctxs, [name |-> NameOf(t), built |-> ok, eng |-> "no",
                           cancelled |-> ~ok])
  /\ IF ok
       THEN /\ h' = [h EXCEPT ![t].pc = "a_put1", ![t].cl = Len(ctxs) + 1]
            /\ lockWriter' = lockWriter
       ELSE /\ Return(t)
            /\ lockWriter' = 0
  /\ UNCHANGED << NotP, clusters, cancelFns, lockReaders, store, nAdds, delSeen, get >>

\* AddPutCluster that leaves the registry alone (the cluster is engaged
\* without having been recorded).
AddPutCluster_Skip(t) ==
  /\ h[t].pc = "a_put1"
  /\ Goto(t, "a_put2")
  /\ UNCHANGED << NotP, clusters, cancelFns, lockWriter, lockReaders, ctxs, store,
                  nAdds, delSeen, get >>

\* p.clusters[clusterName] = cl
AddPutCluster(t) ==
  /\ h[t].pc = "a_put1"
  /\ clusters' = MapPut(clusters, NameOf(t), h[t].cl)
  /\ Goto(t, "a_put2")
  /\ UNCHANGED << NotP, cancelFns, lockWriter, lockReaders, ctxs, store, nAdds,
                  delSeen, get >>

\* p.cancelFns[clusterName] = cancel
AddPutCancel(t) ==
  /\ h[t].pc = "a_put2"
  /\ cancelFns' = MapPut(cancelFns, NameOf(t), h[t].cl)
  /\ Goto(t, "a_unlock")
  /\ UNCHANGED << NotP, clusters, lockWriter, lockReaders, ctxs, store, nAdds,
                  delSeen, get >>

\* AddUnlock that keeps the lock across the call into the engine.
AddUnlock_Keep(t) ==
  /\ h[t].pc = "a_unlock"
  /\ Goto(t, "a_engage")
  /\ UNCHANGED << NotP, clusters, cancelFns, lockWriter, lockReaders, ctxs, store,
                  nAdds, delSeen, get >>

\* p.lock.Unlock() before engaging
AddUnlock(t) ==
  /\ h[t].pc = "a_unlock"
  /\ lockWriter' = IF lockWriter = t THEN 0 ELSE lockWriter
  /\ Goto(t, "a_engage")
  /\ UNCHANGED << NotP, clusters, cancelFns, lockReaders, ctxs, store, nAdds, delSeen,
                  get >>

\* mgr.Engage(clusterCtx, clusterName.String(), cl) is entered ...
AddEngageCall(t) ==
  /\ h[t].pc = "a_engage"
  /\ ctxs' = [ctxs EXCEPT ![h[t].cl].eng = "in"]
  /\ Goto(t, "a_in_engage")
  /\ UNCHANGED << NotP, clusters, cancelFns, lockWriter, lockReaders, store, nAdds,
                  delSeen, get >>

\* ... and returns, with or without an error.
AddEngageReturn(t, ok) ==
  /\ h[t].pc = "a_in_engage"
  /\ ctxs' = [ctxs EXCEPT ![h[t].cl].eng = IF ok THEN "ok" ELSE "err"]
  /\ IF ok THEN Return(t) ELSE Goto(t, "a_rb_lock")
  /\ UNCHANGED << NotP, clusters, cancelFns, lockWriter, lockReaders, store, nAdds,
                  delSeen, get >>

\* rollback: p.lock.Lock()
AddRollbackLock(t) ==
  /\ h[t].pc = "a_rb_lock"
  /\ CanLock
  /\ lockWriter' = t
  /\ Goto(t, "a_rb_cancel")
  /\ UNCHANGED << NotP, clusters, cancelFns, lockReaders, ctxs, store, nAdds, delSeen,
                  get >>

\* AddRollbackCancel that does not call cancel: the context of the cluster
\* whose Engage failed stays live.
AddRollbackCancel_Skip(t) ==
  /\ h[t].pc = "a_rb_cancel"
  /\ Goto(t, "a_rb_check")
  /\ UNCHANGED << NotP, clusters, cancelFns, lockWriter, lockReaders, ctxs, store,
                  nAdds, delSeen, get >>

\* AddRollbackCancel that calls the cancel function stored in the registry for
\* the identity instead of the one its own context.WithCancel returned.
AddRollbackCancel_Stored(t) ==
  /\ h[t].pc = "a_rb_cancel"
  /\ ctxs' = [ctxs EXCEPT ![EntryOf(cancelFns, NameOf(t))].cancelled = TRUE]
  /\ Goto(t, "a_rb_check")
  /\ UNCHANGED << NotP, clusters, cancelFns, lockWriter, lockReaders, store, nAdds,
                  delSeen, get >>

\* cancel()
AddRollbackCancel(t) ==
  /\ h[t].pc = "a_rb_cancel"
  /\ ctxs' = [ctxs EXCEPT ![h[t].cl].cancelled = TRUE]
  /\ Goto(t, "a_rb_check")
  /\ UNCHANGED << NotP, clusters, cancelFns, lockWriter, lockReaders, store, nAdds,
                  delSeen, get >>

\* AddRollbackCheck that deletes without comparing the stored cluster.
AddRollbackCheck_NoCompare(t) ==
  /\ h[t].pc = "a_rb_check"
  /\ Goto(t, "a_rb_del1")
  /\ UNCHANGED << NotP, clusters, cancelFns, lockWriter, lockReaders, ctxs, store,
                  nAdds, delSeen, get >>

\* if p.clusters[clusterName] == cl { ... }
AddRollbackCheck(t) ==
  /\ h[t].pc = "a_rb_check"
  /\ IF NameOf(t) \in DOMAIN clusters /\ clusters[NameOf(t)] = h[t].cl
       THEN Goto(t, "a_rb_del1")
       ELSE Goto(t, "a_rb_unlock")
  /\ UNCHANGED << NotP, clusters, cancelFns, lockWriter, lockReaders, ctxs, store,
                  nAdds, delSeen, get >>

\* AddRollbackDelCluster that leaves the cluster in the registry.
AddRollbackDelCluster_Skip(t) ==
  /\ h[t].pc = "a_rb_del1"
  /\ Goto(t, "a_rb_del2")
  /\ UNCHANGED << NotP, clusters, cancelFns, lockWriter, lockReaders, ctxs, store,
                  nAdds, delSeen, get >>

\* delete(p.clusters, clusterName)
AddRollbackDelCluster(t) ==
  /\ h[t].pc = "a_rb_del1"
  /\ clusters' = MapDelete(clusters, NameOf(t))
  /\ Goto(t, "a_rb_del2")
  /\ UNCHANGED << NotP, cancelFns, lockWriter, lockReaders, ctxs, store, nAdds,
                  delSeen, get >>

\* AddRollbackDelCancel that leaves the cancel function behind.
AddRollbackDelCancel_Skip(t) ==
  /\ h[t].pc = "a_rb_del2"
  /\ Goto(t, "a_rb_unlock")
  /\ UNCHANGED << NotP, clusters, cancelFns, lockWriter, lockReaders, ctxs, store,
                  nAdds, delSeen, get >>

\* delete(p.cancelFns, clusterName)
AddRollbackDelCancel(t) ==
  /\ h[t].pc = "a_rb_del2"
  /\ cancelFns' = MapDelete(cancelFns, NameOf(t))
  /\ Goto(t, "a_rb_unlock")
  /\ UNCHANGED << NotP, clusters, lockWriter, lockReaders, ctxs, store, nAdds,
                  delSeen, get >>

\* p.lock.Unlock(); the handler returns
AddRollbackUnlock(t) ==
  /\ h[t].pc = "a_rb_unlock"
  /\ lockWriter' = 0
  /\ Return(t)
  /\ UNCHANGED << NotP, clusters, cancelFns, lockReaders, ctxs, store, nAdds, delSeen,
                  get >>

AddFunc(t) ==
  \/ AddRLock(t)
  \/ AddFastPath(t)
  \/ AddLock(t)
  \/ AddRecheck(t)
  \/ \E ok \in BOOLEAN : AddNewCluster(t, ok)
  \/ AddPutCluster(t)
  \/ AddPutCancel(t)
  \/ AddUnlock(t)
  \/ AddEngageCall(t)
  \/ \E ok \in BOOLEAN : AddEngageReturn(t, ok)
  \/ AddRollbackLock(t)
  \/ AddRollbackCancel(t)
  \/ AddRollbackCheck(t)
  \/ AddRollbackDelCluster(t)
  \/ AddRollbackDelCancel(t)
  \/ AddRollbackUnlock(t)

\* --------------------------------------------------- DeleteFunc (165-199)
\* DeleteIndexKeys that does not look at the index.
DeleteIndexKeys_NoCheck(t) ==
  /\ h[t].pc = "d_index"
  /\ Goto(t, "d_lock")
  /\ UNCHANGED << NotP, clusters, cancelFns, lockWriter, lockReaders, ctxs, store,
                  nAdds, delSeen, get >>

\* keys, err := shInf.GetIndexer().IndexKeys(ClusterIndexName, clusterName)
\* if len(keys) == 0 { ... }
DeleteIndexKeys(t) ==
  /\ h[t].pc = "d_index"
  /\ IF IndexKeys(store, NameOf(t)) = {} THEN Goto(t, "d_lock") ELSE Return(t)
  /\ UNCHANGED << NotP, clusters, cancelFns, lockWriter, lockReaders, ctxs, store,
                  nAdds, delSeen, get >>

\* p.lock.Lock()
DeleteLock(t) ==
  /\ h[t].pc = "d_lock"
  /\ CanLock
  /\ lockWriter' = t
  /\ Goto(t, "d_lookup")
  /\ UNCHANGED << NotP, clusters, cancelFns, lockReaders, ctxs, store, nAdds, delSeen,
                  get >>

\* cancel, ok := p.cancelFns[clusterName]; if ok { ... }
DeleteLookup(t) ==
  /\ h[t].pc = "d_lookup"
  /\ IF NameOf(t) \in DOMAIN cancelFns
       THEN h' = [h EXCEPT ![t].pc = "d_cancel", ![t].cl = cancelFns[NameOf(t)]]
       ELSE Goto(t, "d_unlock")
  /\ UNCHANGED << NotP, clusters, cancelFns, lockWriter, lockReaders, ctxs, store,
                  nAdds, delSeen, get >>

\* DeleteCancel that forgets to call the stored cancel function.
DeleteCancel_Skip(t) ==
  /\ h[t].pc = "d_cancel"
  /\ Goto(t, "d_del1")
  /\ UNCHANGED << NotP, clusters, cancelFns, lockWriter, lockReaders, ctxs, store,
                  nAdds, delSeen, get >>

\* cancel()
DeleteCancel(t) ==
  /\ h[t].pc = "d_cancel"
  /\ ctxs' = [ctxs EXCEPT ![h[t].cl].cancelled = TRUE]
  /\ Goto(t, "d_del1")
  /\ UNCHANGED << NotP, clusters, cancelFns, lockWriter, lockReaders, store, nAdds,
                  delSeen, get >>

\* delete(p.cancelFns, clusterName)
DeleteDelCancel(t) ==
  /\ h[t].pc = "d_del1"
  /\ cancelFns' = MapDelete(cancelFns, NameOf(t))
  /\ Goto(t, "d_del2")
  /\ UNCHANGED << NotP, clusters, lockWriter, lockReaders, ctxs, store, nAdds,
                  delSeen, get >>

\* DeleteDelCluster that leaves the cancelled cluster in the registry.
DeleteDelCluster_Skip(t) ==
  /\ h[t].pc = "d_del2"
  /\ Goto(t, "d_unlock")
  /\ UNCHANGED << NotP, clusters, cancelFns, lockWriter, lockReaders, ctxs, store,
                  nAdds, delSeen, get >>

\* DeleteDelCluster that empties the whole registry map.
DeleteDelCluster_All(t) ==
  /\ h[t].pc = "d_del2"
  /\ clusters' = << >>
  /\ Goto(t, "d_unlock")
  /\ UNCHANGED << NotP, cancelFns, lockWriter, lockReaders, ctxs, store, nAdds,
                  delSeen, get >>

\* delete(p.clusters, clusterName)
DeleteDelCluster(t) ==
  /\ h[t].pc = "d_del2"
  /\ clusters' = MapDelete(clusters, NameOf(t))
  /\ Goto(t, "d_unlock")
  /\ UNCHANGED << NotP, cancelFns, lockWriter, lockReaders, ctxs, store, nAdds,
                  delSeen, get >>

\* p.lock.Unlock(); the handler returns
DeleteUnlock(t) ==
  /\ h[t].pc = "d_unlock"
  /\ lockWriter' = 0
  /\ Return(t)
  /\ UNCHANGED << NotP, clusters, cancelFns, lockReaders, ctxs, store, nAdds, delSeen,
                  get >>

DeleteFunc(t) ==
  \/ DeleteIndexKeys(t)
  \/ DeleteLock(t)
  \/ DeleteLookup(t)
  \/ DeleteCancel(t)
  \/ DeleteDelCancel(t)
  \/ DeleteDelCluster(t)
  \/ DeleteUnlock(t)

\* Get that builds and stores a cluster for an unknown name while it holds
\* only the read lock.
GetLookup_Insert(name) ==
  /\ get.pc = "idle"
  /\ CanRLock
  /\ lockReaders' = lockReaders \cup {Getter}
  /\ clusters' = IF name \in DOMAIN clusters THEN clusters
                                              ELSE MapPut(clusters, name, 0)
  /\ get' = [pc |-> "g_ret", name |-> name,
             res |-> IF name \in DOMAIN clusters THEN clusters[name] ELSE 0,
             err |-> IF name \in DOMAIN clusters THEN NoErr ELSE GetNotFound]
  /\ UNCHANGED << NotP, cancelFns, lockWriter, ctxs, store, h, nAdds, delSeen >>

\* --------------------------------------------------- Provider.Get (216-224)
\* p.lock.RLock(); defer p.lock.RUnlock();
\* if cl, ok := p.clusters[name]; ok { return cl, nil }; return nil, error
GetLookup(name) ==
  /\ get.pc = "idle"
  /\ CanRLock
  /\ lockReaders' = lockReaders \cup {Getter}
  /\ get' = [pc |-> "g_ret", name |-> name,
             res |-> IF name \in DOMAIN clusters THEN clusters[name] ELSE 0,
             err |-> IF name \in DOMAIN clusters THEN NoErr ELSE GetNotFound]
  /\ UNCHANGED << NotP, clusters, cancelFns, lockWriter, ctxs, store, h, nAdds,
                  delSeen >>

\* the deferred RUnlock runs and Get returns
GetReturn ==
  /\ get.pc = "g_ret"
  /\ lockReaders' = lockReaders \ {Getter}
  /\ get' = IdleGet
  /\ UNCHANGED << NotP, clusters, cancelFns, lockWriter, ctxs, store, h, nAdds,
                  delSeen >>

Get ==
  \/ \E name \in Names : GetLookup(name)
  \/ GetReturn

Next ==
  \/ \E t \in Tids, o \in DiscObjs : InformerAdd(t, o)
  \/ \E t \in Tids, o \in DiscObjs : InformerDelete(t, o)
  \/ \E t \in Tids : AddFunc(t)
  \/ \E t \in Tids : DeleteFunc(t)
  \/ Get

Spec == Init /\ [][Next]_vars

\* ------------------------------------- delete events in their several forms
\* The forms of the payload of a delete event: the object, a
\* DeletedFinalStateUnknown tombstone holding the object, a tombstone holding
\* something that is not an object, and anything else.
DeleteForms == {"object", "tombstone", "tombstone-other", "other"}

\* An object disappears: the indexer drops it and the delete handler is invoked
\* with a payload of one of the forms; raw keeps the form.
InformerDeletePayload(t, o, form) ==
  /\ FreeWorker(t)
  /\ o \in store
  /\ store' = store \ {o}
  /\ delSeen' = delSeen \cup {From(o)}
  /\ h' = [h EXCEPT ![t] = [pc |-> "d_decode", obj |-> o, cl |-> 0, raw |-> form]]
  /\ UNCHANGED << NotP, clusters, cancelFns, lockWriter, lockReaders, ctxs, nAdds,
                  get >>

\* DeleteDecode that takes the identity only from a plain object and gives up
\* on a tombstone.
DeleteDecode_PlainOnly(t) ==
  /\ h[t].pc = "d_decode"
  /\ IF h[t].raw = "object" THEN Goto(t, "d_index") ELSE Return(t)
  /\ UNCHANGED << NotP, clusters, cancelFns, lockWriter, lockReaders, ctxs, store,
                  nAdds, delSeen, get >>

\* cobj, ok := obj.(client.Object); if !ok { the tombstone's Obj, or return }
DeleteDecode(t) ==
  /\ h[t].pc = "d_decode"
  /\ IF h[t].raw \in {"object", "tombstone"} THEN Goto(t, "d_index") ELSE Return(t)
  /\ UNCHANGED << NotP, clusters, cancelFns, lockWriter, lockReaders, ctxs, store,
                  nAdds, delSeen, get >>

\* The discovery handlers with delete payloads of every form (no Get calls).
NextPayload ==
  \/ \E t \in Tids, o \in DiscObjs : InformerAdd(t, o)
  \/ \E t \in Tids, o \in DiscObjs, form \in DeleteForms :
       InformerDeletePayload(t, o, form)
  \/ \E t \in Tids : AddFunc(t)
  \/ \E t \in Tids : DeleteDecode(t)
  \/ \E t \in Tids : DeleteFunc(t)

SpecPayload == Init /\ [][NextPayload]_vars



\* ------------------------------------- the earlier Provider (Run and Get)
WsAccess(op, who) ==
  [op |-> op, w |-> (wsLock.w = who), r |-> (who \in wsLock.r)]

\* Run: the two Start goroutines are launched and Run waits for the cache sync.
WsRunStart(mgr) ==
  /\ ~wsFatal
  /\ wsRun.pc = "new"
  /\ wsRun' = [wsRun EXCEPT !.pc = "sync", !.mgr = mgr, !.cache = "running"]
  /\ UNCHANGED << NotWs, wsClusters, wsLock, wsGet, wsBuilt, wsAccess, wsFatal >>

\* The caller cancels the context it gave to Run.
WsCancel ==
  /\ ~wsFatal
  /\ wsRun.pc # "new"
  /\ ~wsRun.ctxDone
  /\ wsRun' = [wsRun EXCEPT !.ctxDone = TRUE]
  /\ UNCHANGED << NotWs, wsClusters, wsLock, wsGet, wsBuilt, wsAccess, wsFatal >>

\* go func() { p.cache.Start(ctx) }(): Start returns, with nil once ctx is done
\* or with an error, which the goroutine only logs.
WsCacheReturn(failed) ==
  /\ ~wsFatal
  /\ wsRun.cache = "running"
  /\ failed \/ wsRun.ctxDone
  /\ wsRun' = [wsRun EXCEPT !.cache = "stopped"]
  /\ UNCHANGED << NotWs, wsClusters, wsLock, wsGet, wsBuilt, wsAccess, wsFatal >>

\* if !p.cache.WaitForCacheSync(syncCtx) { return error }; if mgr != nil { ... }
WsRunSync(synced) ==
  /\ ~wsFatal
  /\ wsRun.pc = "sync"
  /\ wsRun' = [wsRun EXCEPT !.pc = IF ~synced THEN "failed"
                                   ELSE IF wsRun.mgr THEN "lock" ELSE "done"]
  /\ UNCHANGED << NotWs, wsClusters, wsLock, wsGet, wsBuilt, wsAccess, wsFatal >>

\* p.lock.Lock(); defer p.lock.Unlock()
WsRunLock ==
  /\ ~wsFatal
  /\ wsRun.pc = "lock"
  /\ wsLock.w = 0 /\ wsLock.r = {}
  /\ wsLock' = [wsLock EXCEPT !.w = WsRunner]
  /\ wsRun' = [wsRun EXCEPT !.pc = "engage"]
  /\ UNCHANGED << NotWs, wsClusters, wsGet, wsBuilt, wsAccess, wsFatal >>

\* mgr.Engage(ctx, "*", p.cluster): its result is dropped
WsRunEngage ==
  /\ ~wsFatal
  /\ wsRun.pc = "engage"
  /\ wsRun' = [wsRun EXCEPT !.pc = "unlock"]
  /\ UNCHANGED << NotWs, wsClusters, wsLock, wsGet, wsBuilt, wsAccess, wsFatal >>

\* return nil: the deferred Unlock runs
WsRunReturn ==
  /\ ~wsFatal
  /\ wsRun.pc = "unlock"
  /\ wsLock' = [wsLock EXCEPT !.w = 0]
  /\ wsRun' = [wsRun EXCEPT !.pc = "done"]
  /\ UNCHANGED << NotWs, wsClusters, wsGet, wsBuilt, wsAccess, wsFatal >>

\* Get: p.lock.RLock(); defer p.lock.RUnlock()
WsGetRLock(g, name) ==
  /\ ~wsFatal
  /\ wsGet[g].pc = "idle"
  /\ wsLock.w = 0
  /\ wsLock' = [wsLock EXCEPT !.r = @ \cup {g}]
  /\ wsGet' = [wsGet EXCEPT ![g] = [pc |-> "read", name |-> name, cl |-> 0,
                                    res |-> 0]]
  /\ UNCHANGED << NotWs, wsClusters, wsRun, wsBuilt, wsAccess, wsFatal >>

\* if cl, ok := p.clusters[clusterName]; ok { return cl, nil }
WsGetRead(g) ==
  /\ ~wsFatal
  /\ wsGet[g].pc = "read"
  /\ wsAccess' = WsAccess("read", g)
  /\ wsGet' = [wsGet EXCEPT ![g] =
       IF wsGet[g].name \in DOMAIN wsClusters
         THEN [@ EXCEPT !.pc = "ret", !.res = wsClusters[wsGet[g].name]]
         ELSE [@ EXCEPT !.pc = "build"]]
  /\ UNCHANGED << NotWs, wsClusters, wsLock, wsRun, wsBuilt, wsFatal >>

\* cl, err := newWorkspacedCluster(...); if err != nil { return nil, err }
WsGetBuild(g, ok) ==
  /\ ~wsFatal
  /\ wsGet[g].pc = "build"
  /\ wsBuilt' = IF ok THEN wsBuilt + 1 ELSE wsBuilt
  /\ wsGet' = [wsGet EXCEPT ![g] =
       IF ok THEN [@ EXCEPT !.pc = "put", !.cl = wsBuilt + 1]
             ELSE [@ EXCEPT !.pc = "ret"]]
  /\ UNCHANGED << NotWs, wsClusters, wsLock, wsRun, wsAccess, wsFatal >>

\* Another Get is about to touch p.clusters as well: both hold the read lock.
WsRacing(g) ==
  \E g2 \in WsGetters \ {g} : wsGet[g2].pc \in {"read", "put"}

\* p.clusters[clusterName] = cl; return cl, nil.  An unsynchronised map write
\* next to another access is a data race: the write lands, or the runtime
\* stops the process.
WsGetPut(g, lands) ==
  /\ ~wsFatal
  /\ wsGet[g].pc = "put"
  /\ lands \/ WsRacing(g)
  /\ wsAccess' = WsAccess("write", g)
  /\ IF lands
       THEN /\ wsClusters' = MapPut(wsClusters, wsGet[g].name, wsGet[g].cl)
            /\ wsGet' = [wsGet EXCEPT ![g].pc = "ret", ![g].res = wsGet[g].cl]
            /\ wsFatal' = FALSE
       ELSE /\ wsFatal' = TRUE
            /\ UNCHANGED << wsClusters, wsGet >>
  /\ UNCHANGED << NotWs, wsLock, wsRun, wsBuilt >>

\* the deferred RUnlock runs and Get returns
WsGetReturn(g) ==
  /\ ~wsFatal
  /\ wsGet[g].pc = "ret"
  /\ wsLock' = [wsLock EXCEPT !.r = @ \ {g}]
  /\ wsGet' = [wsGet EXCEPT ![g] = IdleWsGet]
  /\ UNCHANGED << NotWs, wsClusters, wsRun, wsBuilt, wsAccess, wsFatal >>

NextWs ==
  \/ \E mgr \in BOOLEAN : WsRunStart(mgr)
  \/ \E synced \in BOOLEAN : WsRunSync(synced)
  \/ WsRunLock
  \/ WsRunEngage
  \/ WsRunReturn
  \/ WsCancel
  \/ \E failed \in BOOLEAN : WsCacheReturn(failed)
  \/ \E g \in WsGetters, name \in Names : WsGetRLock(g, name)
  \/ \E g \in WsGetters : WsGetRead(g)
  \/ \E g \in WsGetters, ok \in BOOLEAN : WsGetBuild(g, ok)
  \/ \E g \in WsGetters, lands \in BOOLEAN : WsGetPut(g, lands)
  \/ \E g \in WsGetters : WsGetReturn(g)

SpecWs == Init /\ [][NextWs]_vars

\* ------------------------------------------------------- the informer tracker
\* The kinds of the scheme, and a kind the scheme does not know.
Kinds == {"k1", "k2"}
NoKind == "unregistered"

\* The Go types of the objects handed to NewInformer and getSharedInformer.
ObjTypes ==
  {"Unstructured", "PartialObjectMetadata", "PartialObjectMetadataList", "Typed"}

\* informerTracker.informersByType: the map the object's type selects.
informersByType(ty) ==
  CASE ty = "Unstructured" -> "Unstructured"
    [] ty \in {"PartialObjectMetadata", "PartialObjectMetadataList"} -> "Metadata"
    [] OTHER -> "Structured"

\* A closure that overwrites the informer already registered for the kind.
TrackerNewInformer_Replace(k, ty) ==
  /\ trCall.out \notin {"panic-gvk", "panic-exists"}
  /\ trMade < MaxInformers
  /\ k \in Kinds
  /\ trMade' = trMade + 1
  /\ tracker' = [tracker EXCEPT ![informersByType(ty)] = MapPut(@, k, trMade + 1)]
  /\ trCall' = [op |-> "new", kind |-> k, cat |-> informersByType(ty),
                inf |-> trMade + 1, out |-> "returned"]
  /\ UNCHANGED NotTr

\* The NewInformer closure: panic when the scheme does not know the object;
\* otherwise construct the informer, and under the tracker's lock panic if the
\* map already has an informer for the kind, else store the new one, unlock
\* and return it. A panic leaves the lock held and ends the process.
TrackerNewInformer(k, ty) ==
  /\ trCall.out \notin {"panic-gvk", "panic-exists"}
  /\ trMade < MaxInformers
  /\ tracker.lock = "free"
  /\ LET cat == informersByType(ty) IN
     IF k = NoKind
       THEN /\ trCall' = [op |-> "new", kind |-> k, cat |-> "", inf |-> 0,
                          out |-> "panic-gvk"]
            /\ UNCHANGED << tracker, trMade >>
       ELSE /\ trMade' = trMade + 1
            /\ IF k \in DOMAIN tracker[cat]
                 THEN /\ tracker' = [tracker EXCEPT !.lock = "w"]
                      /\ trCall' = [op |-> "new", kind |-> k, cat |-> cat,
                                    inf |-> trMade + 1, out |-> "panic-exists"]
                 ELSE /\ tracker' = [tracker EXCEPT ![cat] = MapPut(@, k, trMade + 1)]
                      /\ trCall' = [op |-> "new", kind |-> k, cat |-> cat,
                                    inf |-> trMade + 1, out |-> "returned"]
  /\ UNCHANGED NotTr

\* getSharedInformer on the tracker: error when the scheme does not know the
\* object, else the map's entry for the kind, read under the read lock.
TrackerGetSharedInformer(k, ty) ==
  /\ trCall.out \notin {"panic-gvk", "panic-exists"}
  /\ tracker.lock = "free"
  /\ LET cat == informersByType(ty) IN
     trCall' = IF k = NoKind
                 THEN [op |-> "get", kind |-> k, cat |-> "", inf |-> 0, out |-> "err"]
               ELSE IF k \in DOMAIN tracker[cat]
                 THEN [op |-> "get", kind |-> k, cat |-> cat,
                       inf |-> tracker[cat][k], out |-> "found"]
               ELSE [op |-> "get", kind |-> k, cat |-> cat, inf |-> 0,
                     out |-> "notfound"]
  /\ UNCHANGED << NotTr, tracker, trMade >>

NextTracker ==
  \/ \E k \in Kinds \cup {NoKind}, ty \in ObjTypes : TrackerNewInformer(k, ty)
  \/ \E k \in Kinds \cup {NoKind}, ty \in ObjTypes : TrackerGetSharedInformer(k, ty)

SpecTracker == Init /\ [][NextTracker]_vars

\* ----------------------------------------------- wildcardCache.IndexField
\* Strings are sequences of characters, so that formatting is concatenation.
NameStr(c) == IF c = "c1" THEN << "c", "1" >> ELSE << "c", "2" >>

\* The values an extractor may return: v1, v2, and one that looks like a key
\* of another cluster (c2/v).
FieldValues == { << "v", "1" >>, << "v", "2" >>, << "c", "2", "/", "v" >> }

\* The extractor results: lists of at most MaxKeys values.
KeyLists == UNION { [1 .. n -> FieldValues] : n \in 0 .. MaxKeys }

\* fmt.Sprintf("%s/%s", a, b)
Sprintf(a, b) == a \o << "/" >> \o b

\* An index function that writes the wildcard keys over the cluster keys.
IndexFunc_Overwrite(obj, keys) ==
  [i \in 1 .. Len(keys) |-> Sprintf(<< "*" >>, keys[i])]

\* The index function IndexField installs: withCluster[i] is "<cluster>/<key>"
\* and withCluster[i+len(keys)] is "*/<key>".
IndexFunc(obj, keys) ==
  [i \in 1 .. 2 * Len(keys) |->
     IF i <= Len(keys) THEN Sprintf(NameStr(From(obj)), keys[i])
                       ELSE Sprintf(<< "*" >>, keys[i - Len(keys)])]

\* The informer indexes an object: the extractor returns keys and the index
\* function turns them into index values.
IndexObject(o, keys) ==
  /\ ixCall' = [obj |-> o, keys |-> keys, out |-> IndexFunc(o, keys)]
  /\ ixCall' # ixCall
  /\ UNCHANGED << NotIx >>

NextIndex == \E o \in DiscObjs, keys \in KeyLists : IndexObject(o, keys)

SpecIndex == Init /\ [][NextIndex]_vars

\* ------------------------------------------------------ the enqueue adapter
\* A nil interface value is Nil; TypedNil is a nil pointer of the object type.
TypedNil == [isNil |-> TRUE, typed |-> TRUE]

\* The annotations an event object may carry: none, the cluster annotation
\* for c1 or c2, or only an annotation under another key.
Annotations ==
  { << >> } \cup { [k \in {"kcp.io/cluster"} |-> c] : c \in Names }
           \cup { [k \in {"other"} |-> "c1"] }

EvtObjs ==
  { [isNil |-> FALSE, annotations |-> a, namespace |-> "ns", name |-> n] :
      a \in Annotations, n \in {"foo", "bar"} }

EvtValues == EvtObjs \cup {Nil, TypedNil}

\* isNil: an invalid reflect.Value, or a nil pointer / interface / ...
isNil(arg) == arg.isNil

\* obj.GetAnnotations()[key]: the empty string when the key is absent
AnnotationOf(o, key) ==
  IF key \in DOMAIN o.annotations THEN o.annotations[key] ELSE ""

\* The request built from an object.
RequestFor(o) ==
  [ClusterName |-> AnnotationOf(o, "kcp.io/cluster"),
   Namespace |-> o.namespace, Name |-> o.name]

\* q.Add(req); the model keeps at most MaxQueue requests.
QAdd(req) == Len(queue) < MaxQueue /\ queue' = Append(queue, req)

\* A Create that leaves the cluster name of the request empty.
Create_NoCluster(o) ==
  /\ evt' = [kind |-> "create", obj |-> o, old |-> Nil]
  /\ IF isNil(o) THEN queue' = queue
                 ELSE QAdd([RequestFor(o) EXCEPT !.ClusterName = ""])
  /\ UNCHANGED << NotEq >>

\* TypedEnqueueRequestForObject.Create
Create(o) ==
  /\ evt' = [kind |-> "create", obj |-> o, old |-> Nil]
  /\ IF isNil(o) THEN queue' = queue ELSE QAdd(RequestFor(o))
  /\ UNCHANGED << NotEq >>

\* An Update that builds the request from the old object when there is one.
Update_PreferOld(old, new) ==
  /\ evt' = [kind |-> "update", obj |-> new, old |-> old]
  /\ CASE ~isNil(old) -> QAdd(RequestFor(old))
       [] ~isNil(new) -> QAdd(RequestFor(new))
       [] OTHER -> queue' = queue
  /\ UNCHANGED << NotEq >>

\* TypedEnqueueRequestForObject.Update: switch { case !isNil(evt.ObjectNew):
\* ...; case !isNil(evt.ObjectOld): ...; default: }
Update(old, new) ==
  /\ evt' = [kind |-> "update", obj |-> new, old |-> old]
  /\ CASE ~isNil(new) -> QAdd(RequestFor(new))
       [] ~isNil(old) -> QAdd(RequestFor(old))
       [] OTHER -> queue' = queue
  /\ UNCHANGED << NotEq >>

\* TypedEnqueueRequestForObject.Delete
Delete(o) ==
  /\ evt' = [kind |-> "delete", obj |-> o, old |-> Nil]
  /\ IF isNil(o) THEN queue' = queue ELSE QAdd(RequestFor(o))
  /\ UNCHANGED << NotEq >>

\* TypedEnqueueRequestForObject.Generic
Generic(o) ==
  /\ evt' = [kind |-> "generic", obj |-> o, old |-> Nil]
  /\ IF isNil(o) THEN queue' = queue ELSE QAdd(RequestFor(o))
  /\ UNCHANGED << NotEq >>

NextEnqueue ==
  \/ \E o \in EvtValues : Create(o)
  \/ \E old, new \in EvtValues : Update(old, new)
  \/ \E o \in EvtValues : Delete(o)
  \/ \E o \in EvtValues : Generic(o)

SpecEnqueue == Init /\ [][NextEnqueue]_vars

\* ------------------------- the shared per-kind informer and the scoped views
\* Object names within a cluster (one namespace), and the objects of the kind:
\* a and b in c1, a in c2, each at some resource version.
ObjNames == {"a", "b"}
Objs ==
  { [cluster |-> d.cluster, name |-> d.name, rv |-> v] :
      d \in DiscObjs, v \in 1 .. MaxRv }

\* toolscache.DeletedFinalStateUnknown: the placeholder a delete event carries
\* when the final state of the object was missed.
DeletedFinalStateUnknown(k, o) == [Key |-> k, Obj |-> o]
IsTombstone(x) == "Obj" \in DOMAIN x

\* The store key of an object: kcpinformers.NewSharedIndexInformer keys by
\* cluster and name, client-go's NewSharedIndexInformer by name alone.
KeyFunc(o) ==
  IF informer = "kcp" THEN << From(o), o.name >> ELSE << "", o.name >>

\* The by-cluster index installed by inf.AddIndexers, after the object under
\* key k changed from old to new (NoObj: none).
UpdateIndex(idx, k, old, new) ==
  [v \in DOMAIN idx |->
     (idx[v] \ (IF v \in ClusterIndexFunc(old) THEN {k} ELSE {}))
       \cup (IF v \in ClusterIndexFunc(new) THEN {k} ELSE {})]

\* opts.NewInformer: builds the shared informer for the kind, adds the cluster
\* indexes and registers it in the tracker (a second one for the kind panics).
NewInformer(c) ==
  /\ informer = "none"
  /\ informer' = c
  /\ UNCHANGED << NotSc, infStore, infIndex, regs, lastEvent, delivered, rd >>

\* scopedInformer.AddEventHandler: the closures that wrap the handler.
AddEventHandler_AddFunc(i, obj) ==
  IF From(obj) = i
  THEN {[cb |-> "OnAdd", obj |-> obj, old |-> NoObj]}
  ELSE {}

\* An UpdateFunc of AddEventHandler that decides on the old object.
AddEventHandler_UpdateFunc_OnOld(i, oldObj, newObj) ==
  IF From(oldObj) = i
  THEN {[cb |-> "OnUpdate", obj |-> newObj, old |-> oldObj]}
  ELSE {}

AddEventHandler_UpdateFunc(i, oldObj, newObj) ==
  IF From(newObj) = i
  THEN {[cb |-> "OnUpdate", obj |-> newObj, old |-> oldObj]}
  ELSE {}

\* A DeleteFunc that does not look inside a tombstone and drops it.
AddEventHandler_DeleteFunc_NoUnwrap(i, obj) ==
  IF IsTombstone(obj)
  THEN {}
  ELSE IF From(obj) = i
       THEN {[cb |-> "OnDelete", obj |-> obj, old |-> NoObj]}
       ELSE {}

AddEventHandler_DeleteFunc(i, obj) ==
  LET cobj == IF IsTombstone(obj) THEN obj.Obj ELSE obj
  IN  IF From(cobj) = i
      THEN {[cb |-> "OnDelete", obj |-> obj, old |-> NoObj]}
      ELSE {}

\* scopedInformer.AddEventHandlerWithResyncPeriod: its closures.
WithResyncPeriod_AddFunc(i, obj) ==
  IF From(obj) = i
  THEN {[cb |-> "OnAdd", obj |-> obj, old |-> NoObj]}
  ELSE {}

\* An UpdateFunc that decides on the old object instead of the new one.
WithResyncPeriod_UpdateFunc_OnOld(i, oldObj, newObj) ==
  IF From(oldObj) = i
  THEN {[cb |-> "OnUpdate", obj |-> newObj, old |-> oldObj]}
  ELSE {}

WithResyncPeriod_UpdateFunc(i, oldObj, newObj) ==
  IF From(newObj) = i
  THEN {[cb |-> "OnUpdate", obj |-> newObj, old |-> oldObj]}
  ELSE {}

WithResyncPeriod_DeleteFunc(i, obj) ==
  LET cobj == IF IsTombstone(obj) THEN obj.Obj ELSE obj
  IN  IF From(cobj) = i
      THEN {[cb |-> "OnDelete", obj |-> obj, old |-> NoObj]}
      ELSE {}

\* The calls one registration makes on its wrapped handler for an event.
Callbacks(r, ev) ==
  CASE ev.kind = "add" ->
         IF r.resync THEN WithResyncPeriod_AddFunc(r.bound, ev.obj)
                     ELSE AddEventHandler_AddFunc(r.bound, ev.obj)
    [] ev.kind = "update" ->
         IF r.resync THEN WithResyncPeriod_UpdateFunc(r.bound, ev.old, ev.obj)
                     ELSE AddEventHandler_UpdateFunc(r.bound, ev.old, ev.obj)
    [] ev.kind = "delete" ->
         IF r.resync THEN WithResyncPeriod_DeleteFunc(r.bound, ev.obj)
                     ELSE AddEventHandler_DeleteFunc(r.bound, ev.obj)

\* The shared informer hands the event to every registered handler.
Notify(ev) ==
  /\ lastEvent' = ev
  /\ delivered' = UNION { { [reg |-> r, cb |-> c.cb, obj |-> c.obj, old |-> c.old]
                            : c \in Callbacks(r, ev) } : r \in regs }

\* i.Informer.AddEventHandler(...): the registration; the informer replays
\* the objects it holds to the new handler as add events.
Register(r) ==
  /\ informer # "none"
  /\ r \notin regs
  /\ regs' = regs \cup {r}
  /\ lastEvent' = [kind |-> "replay", obj |-> NoObj, old |-> NoObj]
  /\ delivered' =
       UNION { { [reg |-> r, cb |-> c.cb, obj |-> c.obj, old |-> c.old]
                 : c \in Callbacks(r, [kind |-> "add", obj |-> infStore[k],
                                       old |-> NoObj]) }
               : k \in DOMAIN infStore }
  /\ UNCHANGED << NotSc, informer, infStore, infIndex, rd >>

AddEventHandler(i) == Register([bound |-> i, resync |-> FALSE])

AddEventHandlerWithResyncPeriod(i) == Register([bound |-> i, resync |-> TRUE])

\* The shared stream: an object arrives whose key the store does not hold.
StreamAdd(o) ==
  /\ informer # "none"
  /\ KeyFunc(o) \notin DOMAIN infStore
  /\ infStore' = MapPut(infStore, KeyFunc(o), o)
  /\ infIndex' = UpdateIndex(infIndex, KeyFunc(o), NoObj, o)
  /\ Notify([kind |-> "add", obj |-> o, old |-> NoObj])
  /\ rd' = NoRead
  /\ UNCHANGED << NotSc, informer, regs >>

\* An object arrives whose key the store holds: the stored object is replaced
\* and the event is an update from the stored object to the new one.
StreamUpdate(o) ==
  /\ informer # "none"
  /\ KeyFunc(o) \in DOMAIN infStore
  /\ LET old == infStore[KeyFunc(o)]
     IN  /\ infStore' = MapPut(infStore, KeyFunc(o), o)
         /\ infIndex' = UpdateIndex(infIndex, KeyFunc(o), old, o)
         /\ Notify([kind |-> "update", obj |-> o, old |-> old])
  /\ rd' = NoRead
  /\ UNCHANGED << NotSc, informer, regs >>

\* The object under key k goes away; the event carries the stored object, or
\* a tombstone around it when the deletion itself was missed.
StreamDelete(k, tomb) ==
  /\ k \in DOMAIN infStore
  /\ LET old == infStore[k]
     IN  /\ infStore' = MapDelete(infStore, k)
         /\ infIndex' = UpdateIndex(infIndex, k, old, NoObj)
         /\ Notify([kind |-> "delete",
                    obj |-> IF tomb THEN DeletedFinalStateUnknown(k, old) ELSE old,
                    old |-> NoObj])
  /\ rd' = NoRead
  /\ UNCHANGED << NotSc, informer, regs >>

\* wildcardCache.getSharedInformer: the tracker's informer for the kind.
getSharedInformer == [found |-> informer # "none"]

\* cacheReader.List: the objects under the reader's cluster in the by-cluster
\* index of the indexer.
cacheReaderList(clusterName) == { infStore[k] : k \in infIndex[clusterName] }

\* cacheReader.Get: the point lookup under the key made of the reader's
\* cluster and the requested name.
cacheReaderGet(clusterName, name) ==
  IF << clusterName, name >> \in DOMAIN infStore
  THEN [res |-> {infStore[<< clusterName, name >>]}, err |-> ""]
  ELSE [res |-> {}, err |-> "NotFound"]

\* (a List whose reader is not bound to the cache's cluster)
scopedCacheList_Unbound(clusterName) ==
  [res |-> { infStore[k] : k \in DOMAIN infStore }, err |-> ""]

\* scopedCache.List: a cacheReader bound to c.clusterName over the indexer.
scopedCacheList(clusterName) ==
  IF ~getSharedInformer.found
  THEN [res |-> {}, err |-> "no informer found"]
  ELSE [res |-> cacheReaderList(clusterName), err |-> ""]

\* scopedCache.Get
scopedCacheGet(clusterName, name) ==
  IF ~getSharedInformer.found
  THEN [res |-> {}, err |-> "no informer found"]
  ELSE cacheReaderGet(clusterName, name)

\* A caller lists (gets) through the scoped cache bound to c.
ReadList(c) ==
  /\ LET r == scopedCacheList(c)
     IN  rd' = [op |-> "List", bound |-> c, name |-> "", res |-> r.res,
                err |-> r.err]
  /\ rd' # rd
  /\ UNCHANGED << NotSc, informer, infStore, infIndex, regs, lastEvent,
                  delivered >>

ReadGet(c, n) ==
  /\ LET r == scopedCacheGet(c, n)
     IN  rd' = [op |-> "Get", bound |-> c, name |-> n, res |-> r.res,
                err |-> r.err]
  /\ rd' # rd
  /\ UNCHANGED << NotSc, informer, infStore, infIndex, regs, lastEvent,
                  delivered >>

\* The operations a scoped view does not support, and the error each returns.
scopedCacheStart == "scoped cache cannot be started"
scopedCacheRemoveInformer == "informer cannot be removed from scoped cache"
scopedInformerAddIndexers == "AddIndexers is not supported on scoped informers"
scopedClusterStart == "scoped cluster cannot be started"

UnsupportedOps ==
  {"scopedCache.Start", "scopedCache.RemoveInformer",
   "scopedInformer.AddIndexers", "scopedCluster.Start"}

UnsupportedErr(op) ==
  CASE op = "scopedCache.Start" -> scopedCacheStart
    [] op = "scopedCache.RemoveInformer" -> scopedCacheRemoveInformer
    [] op = "scopedInformer.AddIndexers" -> scopedInformerAddIndexers
    [] op = "scopedCluster.Start" -> scopedClusterStart

\* A RemoveInformer that is carried out on the shared informer.
CallUnsupported_Remove(op, c) ==
  /\ rd' = [op |-> op, bound |-> c, name |-> "", res |-> {},
            err |-> IF op = "scopedCache.RemoveInformer" THEN "" ELSE UnsupportedErr(op)]
  /\ rd' # rd
  /\ IF op = "scopedCache.RemoveInformer"
       THEN /\ informer' = "none"
            /\ infStore' = << >>
            /\ infIndex' = [v \in Names |-> {}]
       ELSE UNCHANGED << informer, infStore, infIndex >>
  /\ UNCHANGED << NotSc, regs, lastEvent, delivered >>

\* A caller invokes one of them on the view bound to c.
CallUnsupported(op, c) ==
  /\ rd' = [op |-> op, bound |-> c, name |-> "", res |-> {},
            err |-> UnsupportedErr(op)]
  /\ rd' # rd
  /\ UNCHANGED << NotSc, informer, infStore, infIndex, regs, lastEvent,
                  delivered >>

\* scopedCluster's accessors for its cache: what a call returns (reader: the
\* identity the returned scoped cache is bound to) or how it ends.
scopedClusterGetCache(c) == [reader |-> c, err |-> ""]
scopedClusterGetFieldIndexer(c) == [reader |-> c, err |-> ""]

\* GetAPIReader's body is the call c.GetAPIReader(): every call makes another
\* one until the goroutine's stack is used up (MaxStack frames) and the
\* runtime ends the process.
RECURSIVE GetAPIReaderFrame(_, _)
GetAPIReaderFrame(c, depth) ==
  IF depth = MaxStack
  THEN [reader |-> "", err |-> "fatal error: stack overflow"]
  ELSE GetAPIReaderFrame(c, depth + 1)

scopedClusterGetAPIReader(c) == GetAPIReaderFrame(c, 1)

Accessors ==
  {"scopedCluster.GetCache", "scopedCluster.GetFieldIndexer",
   "scopedCluster.GetAPIReader"}

\* A caller invokes an accessor on the scoped cluster of c.
CallAccessor(op, c) ==
  /\ LET r == CASE op = "scopedCluster.GetCache" -> scopedClusterGetCache(c)
                [] op = "scopedCluster.GetFieldIndexer" -> scopedClusterGetFieldIndexer(c)
                [] op = "scopedCluster.GetAPIReader" -> scopedClusterGetAPIReader(c)
     IN  rd' = [op |-> op, bound |-> c, name |-> r.reader, res |-> {},
                err |-> r.err]
  /\ rd' # rd
  /\ UNCHANGED << NotSc, informer, infStore, infIndex, regs, lastEvent,
                  delivered >>

NextScoped ==
  \/ \E c \in {"kcp", "k8s"} : NewInformer(c)
  \/ \E i \in Names : AddEventHandler(i)
  \/ \E i \in Names : AddEventHandlerWithResyncPeriod(i)
  \/ \E o \in Objs : StreamAdd(o)
  \/ \E o \in Objs : StreamUpdate(o)
  \/ \E k \in DOMAIN infStore, tomb \in BOOLEAN : StreamDelete(k, tomb)
  \/ \E c \in Names : ReadList(c)
  \/ \E c \in Names, n \in ObjNames : ReadGet(c, n)
  \/ \E op \in UnsupportedOps, c \in Names : CallUnsupported(op, c)
  \/ \E op \in Accessors, c \in Names : CallAccessor(op, c)

SpecScoped == Init /\ [][NextScoped]_vars

\* ------------------------------------------- Provider.Run and its contexts
\* What happens inside one add handler: everything succeeds, newScopedCluster
\* fails, or Engage fails.
Outcomes == {"ok", "nobuild", "noengage"}

\* The run context is cancelled: every context derived from it is cancelled.
CancelRun(pr) ==
  [pr EXCEPT !.ctxDone = TRUE,
             !.ctxs = { IF c.parent = "run" THEN [c EXCEPT !.cancelled = TRUE]
                                           ELSE c : c \in @ }]

\* The context AddFunc makes for identity X, as the handler leaves it.
NewCtx(pr, X, out, parent) ==
  [name |-> X, parent |-> parent,
   eng |-> (CASE out = "ok" -> "ok" [] out = "noengage" -> "err" [] OTHER -> "no"),
   cancelled |-> out # "ok" \/ (parent = "run" /\ pr.ctxDone),
   reg |-> out = "ok"]

\* An add handler that derives the cluster's context from context.Background().
AddFuncOf_Background(pr, X, out) ==
  IF X \in DOMAIN pr.clusters THEN pr
  ELSE CASE out = "ok" ->
              [pr EXCEPT !.ctxs = @ \cup {NewCtx(pr, X, out, "background")},
                         !.clusters = MapPut(@, X, X),
                         !.cancelFns = MapPut(@, X, X)]
         [] OTHER ->
              [pr EXCEPT !.ctxs = @ \cup {NewCtx(pr, X, out, "background")}]

\* An add handler that cancels the run context when Engage fails.
AddFuncOf_Propagate(pr, X, out) ==
  IF X \in DOMAIN pr.clusters THEN pr
  ELSE CASE out = "ok" ->
              [pr EXCEPT !.ctxs = @ \cup {NewCtx(pr, X, out, "run")},
                         !.clusters = MapPut(@, X, X),
                         !.cancelFns = MapPut(@, X, X)]
         [] out = "noengage" ->
              CancelRun([pr EXCEPT !.ctxs = @ \cup {NewCtx(pr, X, out, "run")}])
         [] OTHER ->
              [pr EXCEPT !.ctxs = @ \cup {NewCtx(pr, X, out, "run")}]

\* AddFunc as one step on the provider pr for identity X: fast path when X is
\* registered; otherwise context.WithCancel(ctx), newScopedCluster (when it
\* fails the context is cancelled at once and no cluster is kept), the two
\* map writes, Engage, and the rollback (cancel, both deletes) when Engage
\* fails.
AddFuncOf(pr, X, out) ==
  IF X \in DOMAIN pr.clusters THEN pr
  ELSE CASE out = "ok" ->
              [pr EXCEPT !.ctxs = @ \cup {NewCtx(pr, X, out, "run")},
                         !.clusters = MapPut(@, X, X),
                         !.cancelFns = MapPut(@, X, X)]
         [] OTHER ->
              [pr EXCEPT !.ctxs = @ \cup {NewCtx(pr, X, out, "run")}]

\* DeleteFunc as one step: with no object of X left in the index, the stored
\* cancel function is called and both entries are deleted.
DeleteFuncOf(pr, X, items) ==
  IF IndexKeys(items, X) = {} /\ X \in DOMAIN pr.cancelFns
    THEN [pr EXCEPT !.ctxs = { IF c.name = X /\ c.reg
                                 THEN [c EXCEPT !.cancelled = TRUE, !.reg = FALSE]
                                 ELSE c : c \in @ },
                    !.cancelFns = MapDelete(@, X),
                    !.clusters = MapDelete(@, X)]
    ELSE pr

\* New: the provider keeps the wildcard cache and starts with empty maps.
New(p) ==
  /\ prov[p].pc = "none"
  /\ \A q \in Provs : q < p => prov[q].pc # "none"
  /\ prov' = [prov EXCEPT ![p].pc = "new"]
  /\ UNCHANGED << NotRun, wc >>

\* RunBegin whose handler is attached without the informer replaying the
\* objects it already holds.
RunBegin_NoReplay(p, ok, outs) ==
  /\ prov[p].pc = "new"
  /\ IF ok
       THEN prov' = [prov EXCEPT ![p].pc = "sync", ![p].handler = TRUE,
                                 ![p].task = "go"]
       ELSE prov' = [prov EXCEPT ![p].pc = "ret", ![p].err = "informer"]
  /\ UNCHANGED << NotRun, wc >>

\* Run up to g.Go: errgroup.WithContext, GetInformer, getSharedInformer and
\* AddEventHandler (any of them failing makes Run return the error), then the
\* Start task is handed to the group.  The informer replays the objects it
\* holds to the new handler as add events.
RunBegin(p, ok, outs) ==
  /\ prov[p].pc = "new"
  /\ IF ok
       THEN LET replay1 == IF IndexKeys(wc.store, "c1") # {}
                             THEN AddFuncOf(prov[p], "c1", outs["c1"])
                             ELSE prov[p]
                replay2 == IF IndexKeys(wc.store, "c2") # {}
                             THEN AddFuncOf(replay1, "c2", outs["c2"])
                             ELSE replay1
            IN  prov' = [prov EXCEPT ![p] = [replay2 EXCEPT !.pc = "sync",
                                                            !.handler = TRUE,
                                                            !.task = "go"]]
       ELSE prov' = [prov EXCEPT ![p].pc = "ret", ![p].err = "informer"]
  /\ UNCHANGED << NotRun, wc >>

\* The task of the group calls p.cache.Start(ctx): the cache starts running,
\* or, when it was started before, Start returns an error and the group
\* cancels the run context.
TaskStart(p) ==
  /\ prov[p].task = "go"
  /\ wc' = [wc EXCEPT !.calls = @ + 1,
                      !.state = IF @ = "new" THEN "running" ELSE @]
  /\ prov' = [prov EXCEPT ![p] = IF wc.state = "new"
                                   THEN [@ EXCEPT !.task = "running"]
                                   ELSE [CancelRun(@) EXCEPT !.task = "err"]]
  /\ UNCHANGED NotRun

\* The run context is done: the cache stops and Start returns nil.
TaskReturn(p) ==
  /\ prov[p].task = "running"
  /\ prov[p].ctxDone
  /\ wc' = [wc EXCEPT !.state = "stopped"]
  /\ prov' = [prov EXCEPT ![p].task = "nil"]
  /\ UNCHANGED NotRun

\* The running cache fails: Start returns an error and the group cancels the
\* run context.
TaskFail(p) ==
  /\ prov[p].task = "running"
  /\ wc' = [wc EXCEPT !.state = "stopped"]
  /\ prov' = [prov EXCEPT ![p] = [CancelRun(@) EXCEPT !.task = "err"]]
  /\ UNCHANGED NotRun

\* The informers of the running cache finish their initial list.
CacheSync ==
  /\ wc.state = "running"
  /\ ~wc.synced
  /\ wc' = [wc EXCEPT !.synced = TRUE]
  /\ UNCHANGED << NotRun, prov >>

\* The caller of Run cancels the context it passed in.
CallerCancel(p) ==
  /\ prov[p].pc \in {"sync", "wait", "ret"}
  /\ prov[p].handler
  /\ ~prov[p].ctxDone
  /\ prov' = [prov EXCEPT ![p] = CancelRun(@)]
  /\ UNCHANGED << NotRun, wc >>

\* RunSync that goes on to g.Wait whatever WaitForCacheSync answered.
RunSync_IgnoreResult(p, synced) ==
  /\ prov[p].pc = "sync"
  /\ IF synced THEN wc.synced ELSE ~wc.synced \/ prov[p].ctxDone
  /\ prov' = [prov EXCEPT ![p].pc = "wait"]
  /\ UNCHANGED << NotRun, wc >>

\* if !p.cache.WaitForCacheSync(syncCtx) { return error }: the answer is true
\* only if the cache is synced, and false when the 30 s run out or the run
\* context is done first.
RunSync(p, synced) ==
  /\ prov[p].pc = "sync"
  /\ IF synced THEN wc.synced ELSE ~wc.synced \/ prov[p].ctxDone
  /\ prov' = [prov EXCEPT ![p].pc = IF synced THEN "wait" ELSE "ret",
                          ![p].err = IF synced THEN "" ELSE "sync"]
  /\ UNCHANGED << NotRun, wc >>

\* return g.Wait(): blocks until the Start task has returned, cancels the
\* group's context and returns the task's error.
RunWait(p) ==
  /\ prov[p].pc = "wait"
  /\ prov[p].task \in {"nil", "err"}
  /\ prov' = [prov EXCEPT ![p] = [CancelRun(@) EXCEPT
                                    !.pc = "ret",
                                    !.err = IF prov[p].task = "err" THEN "start"
                                                                    ELSE ""]]
  /\ UNCHANGED << NotRun, wc >>

\* The running cache sees a new discovery object: every registered handler
\* runs AddFunc.
DiscoverAdd(o, outs) ==
  /\ wc.state = "running"
  /\ o \notin wc.store
  /\ wc.adds < MaxAdds
  /\ \A p \in Provs : ~prov[p].handler => outs[p] = "ok"
  /\ wc' = [wc EXCEPT !.store = @ \cup {o}, !.adds = @ + 1]
  /\ prov' = [p \in Provs |-> IF prov[p].handler
                                THEN AddFuncOf(prov[p], From(o), outs[p])
                                ELSE prov[p]]
  /\ UNCHANGED NotRun

\* The running cache sees a discovery object go away: every registered
\* handler runs DeleteFunc.
DiscoverDelete(o) ==
  /\ wc.state = "running"
  /\ o \in wc.store
  /\ wc' = [wc EXCEPT !.store = @ \ {o}]
  /\ prov' = [p \in Provs |-> IF prov[p].handler
                                THEN DeleteFuncOf(prov[p], From(o), wc.store \ {o})
                                ELSE prov[p]]
  /\ UNCHANGED NotRun

NextRun ==
  \/ \E p \in Provs : New(p)
  \/ \E p \in Provs, ok \in BOOLEAN, outs \in [Names -> Outcomes] :
       RunBegin(p, ok, outs)
  \/ \E p \in Provs : TaskStart(p)
  \/ \E p \in Provs : TaskReturn(p)
  \/ \E p \in Provs : TaskFail(p)
  \/ CacheSync
  \/ \E p \in Provs : CallerCancel(p)
  \/ \E p \in Provs, synced \in BOOLEAN : RunSync(p, synced)
  \/ \E p \in Provs : RunWait(p)
  \/ \E o \in DiscObjs, outs \in [Provs -> Outcomes] : DiscoverAdd(o, outs)
  \/ \E o \in DiscObjs : DiscoverDelete(o)

SpecRun == Init /\ [][NextRun]_vars

\* ------------------------------------- from scoped informer to the work queue
\* An object of the shared informer as the enqueue adapter reads it:
\* logicalcluster.From is the value of its kcp.io/cluster annotation.
AsEvtObject(o) ==
  [isNil |-> FALSE, annotations |-> [k \in {"kcp.io/cluster"} |-> From(o)],
   namespace |-> "ns", name |-> o.name]

\* The scoped informer bound to i (registered with or without a resync
\* period) is given the stream event ev; the callback it forwards reaches the
\* enqueue adapter as a create, update or delete event (the object inside a
\* tombstone for a delete).
Forward(i, rs, ev) ==
  \E c \in Callbacks([bound |-> i, resync |-> rs], ev) :
    CASE c.cb = "OnAdd" -> Create(AsEvtObject(c.obj))
      [] c.cb = "OnUpdate" -> Update(AsEvtObject(c.old), AsEvtObject(c.obj))
      [] c.cb = "OnDelete" ->
           Delete(AsEvtObject(IF IsTombstone(c.obj) THEN c.obj.Obj ELSE c.obj))

\* One provider discovers and disengages clusters while scoped informers
\* forward events of the shared stream to the adapter.
NextRoute ==
  \/ New(1)
  \/ RunBegin(1, TRUE, [X \in Names |-> "ok"])
  \/ TaskStart(1)
  \/ \E o \in DiscObjs : DiscoverAdd(o, [p \in Provs |-> "ok"])
  \/ \E o \in DiscObjs : DiscoverDelete(o)
  \/ \E i \in Names, rs \in BOOLEAN, o \in Objs :
       Forward(i, rs, [kind |-> "add", obj |-> o, old |-> NoObj])
  \/ \E i \in Names, rs \in BOOLEAN, o \in Objs, old \in Objs :
       Forward(i, rs, [kind |-> "update", obj |-> o, old |-> old])
  \/ \E i \in Names, rs \in BOOLEAN, o \in Objs, tomb \in BOOLEAN :
       Forward(i, rs, [kind |-> "delete",
                       obj |-> IF tomb
                                 THEN DeletedFinalStateUnknown(<< From(o), o.name >>, o)
                                 ELSE o,
                       old |-> NoObj])

SpecRoute == Init /\ [][NextRoute]_vars

\* ================================================================ claims
Active(t) == h[t].pc # "idle"
Quiescent == \A t \in Tids : ~Active(t)
Ids == 1 .. Len(ctxs)
\* contexts of X whose scoped cluster was constructed / that were handed to Engage
Built(X) == {i \in Ids : ctxs[i].name = X /\ ctxs[i].built}
Engaged(X) == {i \in Ids : ctxs[i].name = X /\ ctxs[i].eng # "no"}
\* no construction and no Engage call for X has failed
NoFailure(X) ==
  \A i \in Ids : ctxs[i].name = X => ctxs[i].built /\ ctxs[i].eng # "err"
\* what Provider.Get(X) answers in the current state (0: not found)
Lookup(X) == IF X \in DOMAIN clusters THEN clusters[X] ELSE 0

\* C1: whenever no handler holds the registry write lock, p.clusters and
\* p.cancelFns have the same key set (and the same context behind each key).
C1_KeySetsEqual ==
  lockWriter = 0 =>
    /\ DOMAIN clusters = DOMAIN cancelFns
    /\ \A X \in DOMAIN clusters : clusters[X] = cancelFns[X]

\* C1 witness: the lock is free, a cluster is registered, and a failed Engage
\* was rolled back and a delete event was handled before.
C1_Witness ==
  /\ lockWriter = 0
  /\ DOMAIN clusters # {}
  /\ delSeen # {}
  /\ \E i \in Ids : ctxs[i].eng = "err" /\ ctxs[i].cancelled

C3_NoEntryAfterRollback ==
  \A t \in Tids :
    h[t].pc = "a_rb_unlock" =>
      NameOf(t) \notin DOMAIN clusters /\ NameOf(t) \notin DOMAIN cancelFns

\* C3 (amended): when the add handler whose Engage failed returns, neither map
\* holds the cluster or the cancel function that handler registered, its
\* context is cancelled, and X is absent from both maps unless a delete event
\* for X and a later add have registered a newer cluster for X.
C3_OwnEntryGoneAfterRollback ==
  \A t \in Tids :
    h[t].pc = "a_rb_unlock" =>
      /\ Lookup(NameOf(t)) # h[t].cl
      /\ NameOf(t) \in DOMAIN cancelFns => cancelFns[NameOf(t)] # h[t].cl
      /\ ctxs[h[t].cl].cancelled
      /\ NameOf(t) \in DOMAIN clusters =>
           /\ NameOf(t) \in delSeen
           /\ clusters[NameOf(t)] > h[t].cl
           /\ NameOf(t) \in DOMAIN cancelFns

\* C3 witness: a handler whose Engage failed is about to return and X is in
\* neither map.
C3_Witness ==
  \E t \in Tids :
    /\ h[t].pc = "a_rb_unlock"
    /\ ctxs[h[t].cl].eng = "err"
    /\ NameOf(t) \notin DOMAIN clusters
    /\ NameOf(t) \notin DOMAIN cancelFns

\* C4: when a delete handler that found the cluster index empty for X leaves
\* its critical section, X is in neither map and the cancel function it found
\* stored for X has been called.
C4_Disengaged ==
  \A t \in Tids :
    h[t].pc = "d_unlock" =>
      /\ NameOf(t) \notin DOMAIN clusters
      /\ NameOf(t) \notin DOMAIN cancelFns
      /\ h[t].cl # 0 => ctxs[h[t].cl].cancelled

\* C4 witness: a delete handler has just disengaged a successfully engaged
\* cluster.
C4_Witness ==
  \E t \in Tids :
    /\ h[t].pc = "d_unlock"
    /\ h[t].cl # 0
    /\ ctxs[h[t].cl].eng = "ok"

\* C7: Provider.Get never changes the registry; it returns the cluster stored
\* for X when X is a key and fails (0) when X is absent.
C7_GetIsPureLookup ==
  /\ [](get.pc = "g_ret" => get.res = Lookup(get.name))
  /\ [][get' # get => clusters' = clusters /\ cancelFns' = cancelFns]_vars

\* C7 witness: Get fails for an identity that was engaged and then disengaged.
C7_Witness ==
  /\ get.pc = "g_ret"
  /\ get.res = 0
  /\ \E i \in Ids :
       ctxs[i].name = get.name /\ ctxs[i].eng = "ok" /\ ctxs[i].cancelled

\* The lock each step of provider.go holds when it touches a registry map.
WritePcs == {"a_put1", "a_put2", "a_rb_del1", "a_rb_del2", "d_del1", "d_del2"}
ReadPcs == {"a_recheck", "a_rb_check", "d_lookup"}
ProviderLockDiscipline ==
  /\ \A t \in Tids : h[t].pc \in WritePcs \cup ReadPcs => lockWriter = t
  /\ \A t \in Tids : h[t].pc = "a_fast" => t \in lockReaders
  /\ get.pc = "g_ret" => Getter \in lockReaders
  /\ lockWriter # 0 => lockReaders = {}

\* C8: every write of a registry map is made by a goroutine that holds the
\* write lock and every read by one that holds at least the read lock; no map
\* is written under the read lock alone (in the add and delete handlers and in
\* both Provider.Get methods).
C8_WritesUnderWriteLock ==
  /\ ProviderLockDiscipline
  /\ wsAccess.op = "write" => wsAccess.w
  /\ wsAccess.op = "read" => wsAccess.w \/ wsAccess.r

\* C9: a handler that is calling Engage holds neither the write nor the read
\* lock, so the lock is free whenever the engaging handlers are the only
\* goroutines at work.
C9_EngageOutsideLock ==
  /\ \A t \in Tids :
       h[t].pc \in {"a_engage", "a_in_engage"} =>
         lockWriter # t /\ t \notin lockReaders
  /\ ((\A t \in Tids : h[t].pc \in {"idle", "a_in_engage"}) /\ get.pc = "idle")
       => CanLock

\* C9 witness: while Engage for A is in progress, a handler for another
\* identity B holds the write lock.
C9_Witness ==
  \E t, u \in Tids :
    /\ h[t].pc = "a_in_engage"
    /\ NameOf(u) # NameOf(t)
    /\ lockWriter = u
    /\ h[u].pc \in {"a_put2", "d_del2"}

\* C10: in a quiescent state, an identity X that still has a discovery object
\* in the index and for which no construction and no Engage failed is in the
\* registry with a context that is not cancelled.
C10_DiscoveredStaysEngaged ==
  \A X \in Names :
    (Quiescent /\ IndexKeys(store, X) # {} /\ NoFailure(X)) =>
      X \in DOMAIN clusters /\ ~ctxs[clusters[X]].cancelled

\* C5: a handler registered through a scoped informer bound to B never
\* receives a callback carrying an object that belongs to another cluster:
\* neither the object of an add, update or delete (the object inside a
\* tombstone included) nor the old object of an update.
Carried(d) ==
  {IF IsTombstone(d.obj) THEN d.obj.Obj ELSE d.obj}
    \cup (IF d.cb = "OnUpdate" THEN {d.old} ELSE {})
C5_NoForeignObject ==
  \A d \in delivered : \A o \in Carried(d) : From(o) = d.reg.bound

\* the same for a shared informer whose store is keyed by cluster
C5_NoForeignObjectClusterKeyed ==
  informer = "kcp" => C5_NoForeignObject

\* C6: every object the shared informer holds is returned by List on the
\* scoped cache bound to its owning cluster, and by neither List nor Get on
\* a scoped cache bound to another cluster; what a read returned belongs to
\* the cluster the cache is bound to.
C6_ListIsolation ==
  /\ \A k \in DOMAIN infStore :
       LET o == infStore[k]
       IN  /\ o \in scopedCacheList(From(o)).res
           /\ \A c \in Names \ {From(o)} :
                /\ o \notin scopedCacheList(c).res
                /\ \A n \in ObjNames : o \notin scopedCacheGet(c, n).res
  /\ \A o \in rd.res : From(o) = rd.bound
C6_Witness ==
  /\ rd.op = "List"
  /\ rd.res # {}
  /\ rd.res = scopedCacheList(rd.bound).res
  /\ lastEvent.kind = "delete"
  /\ \E k \in DOMAIN infStore : From(infStore[k]) # rd.bound

\* the registry entries of identity Y and the cancellation state of Y's contexts
CancelledOf(c, Y) == {i \in DOMAIN c : c[i].name = Y /\ c[i].cancelled}

\* C11: the steps by which a delete handler disengages X (cancel, delete
\* from p.cancelFns, delete from p.clusters) cancel only a context of X and
\* leave the entries of every other identity in both maps, and the cancellation
\* state of every other identity's contexts, as they were.
C11_DisengageFrame ==
  [][\A t \in Tids :
       (h[t].pc \in {"d_cancel", "d_del1", "d_del2"} /\ h'[t].pc # h[t].pc) =>
         /\ DOMAIN ctxs' = DOMAIN ctxs
         /\ \A Y \in Names \ {NameOf(t)} :
              /\ EntryOf(clusters', Y) = EntryOf(clusters, Y)
              /\ EntryOf(cancelFns', Y) = EntryOf(cancelFns, Y)
              /\ CancelledOf(ctxs', Y) = CancelledOf(ctxs, Y)]_vars

\* C11 witness: a delete handler has disengaged X while another identity is
\* registered with a live context.
C11_Witness ==
  \E t \in Tids, Y \in Names :
    /\ h[t].pc = "d_unlock"
    /\ h[t].cl # 0
    /\ Y # NameOf(t)
    /\ Y \in DOMAIN clusters
    /\ Y \in DOMAIN cancelFns
    /\ ~ctxs[clusters[Y]].cancelled

\* C19: a delete handler that finds the cluster index still holding an object
\* of X returns without touching the registry or any context: X stays
\* registered and its cancel function is not called.
C19_DeleteKeepsIndexed ==
  [][\A t \in Tids :
       (h[t].pc = "d_index" /\ h'[t].pc # "d_index"
          /\ IndexKeys(store, NameOf(t)) # {}) =>
         /\ h'[t] = IdleH
         /\ clusters' = clusters
         /\ cancelFns' = cancelFns
         /\ ctxs' = ctxs]_vars

\* C19 witness: a delete event for an object of X is being handled while the
\* index holds another object of X and X is engaged.
C19_Witness ==
  \E t \in Tids :
    /\ h[t].pc = "d_index"
    /\ IndexKeys(store, NameOf(t)) # {}
    /\ NameOf(t) \in DOMAIN clusters
    /\ ctxs[clusters[NameOf(t)]].eng = "ok"
    /\ ~ctxs[clusters[NameOf(t)]].cancelled

\* the add handlers still working on context i
Working(i) == {t \in Tids : h[t].cl = i /\ h[t].pc \notin {"idle", "d_decode", "d_index",
                 "d_lock", "d_lookup", "d_cancel", "d_del1", "d_del2", "d_unlock"}}
\* a handler has registered a cluster and is about to release the lock
Registering(t) == h[t].pc = "a_unlock"
FreshlyRegistered(t) ==
  /\ ctxs[h[t].cl].built
  /\ ~ctxs[h[t].cl].cancelled
  /\ ctxs[h[t].cl].eng = "no"
  /\ Lookup(NameOf(t)) = h[t].cl
  /\ EntryOf(cancelFns, NameOf(t)) = h[t].cl

\* C17: once the handler whose Engage failed has rolled back, its cluster is
\* in neither map, so an add handler returns early only when X is registered
\* by someone else; the handler that registers X after a rollback registers
\* a newly built cluster under a new context that is not cancelled, and that
\* context is the one passed to Engage.
C17_RetryAfterRollback ==
  /\ [](\A i \in Ids :
         (ctxs[i].eng = "err" /\ Working(i) = {}) =>
           /\ \A X \in DOMAIN clusters : clusters[X] # i
           /\ \A X \in DOMAIN cancelFns : cancelFns[X] # i)
  /\ [](\A t \in Tids : Registering(t) => FreshlyRegistered(t))
  /\ [](\A t \in Tids : h[t].pc = "a_in_engage" => ctxs[h[t].cl].eng = "in")
  /\ [][\A t \in Tids :
         (h[t].pc \in {"a_fast", "a_recheck"} /\ h'[t] = IdleH) =>
           NameOf(t) \in DOMAIN clusters]_vars

\* C17 witness: after a failed Engage for X was rolled back (no delete event
\* for X involved) a later add handler has registered a new cluster for X and
\* is inside Engage with its live context.
C17_Witness ==
  \E t \in Tids, j \in Ids :
    /\ h[t].pc = "a_in_engage"
    /\ NameOf(t) \notin delSeen
    /\ j < h[t].cl
    /\ ctxs[j].name = NameOf(t)
    /\ ctxs[j].eng = "err"
    /\ ctxs[j].cancelled
    /\ Lookup(NameOf(t)) = h[t].cl
    /\ ~ctxs[h[t].cl].cancelled

\* the lifecycle phase of identity X
Phase(X) ==
  IF \E t \in Tids : NameOf(t) = X /\ h[t].pc \in {"d_cancel", "d_del1", "d_del2"}
    THEN "Disengaging"
  ELSE IF X \notin DOMAIN clusters THEN "Undiscovered"
  ELSE IF ctxs[clusters[X]].eng = "ok" THEN "Engaged"
  ELSE IF ctxs[clusters[X]].eng = "err" THEN "RollingBack"
  ELSE "Engaging"

LifecycleMoves ==
  { << "Undiscovered", "Engaging" >>, << "Engaging", "Engaged" >>,
    << "Engaged", "Disengaging" >>, << "Disengaging", "Undiscovered" >> }
\* a failed Engage, and a delete event that arrives before Engage returned
\* or before the rollback took the lock
FailureMoves ==
  { << "Engaging", "RollingBack" >>, << "RollingBack", "Undiscovered" >>,
    << "Engaging", "Disengaging" >>, << "RollingBack", "Disengaging" >> }

C12_ChildrenOfRunContext ==
  \A p \in Provs : \A c \in prov[p].ctxs :
    /\ c.parent = "run"
    /\ prov[p].ctxDone => c.cancelled

\* C12 witness: the Start task returned an error while Run was waiting, the
\* group cancelled the run context, and a registered, engaged cluster's
\* context is cancelled with it.
C12_Witness ==
  \E p \in Provs : \E c \in prov[p].ctxs :
    /\ prov[p].task = "err"
    /\ prov[p].pc = "wait"
    /\ prov[p].ctxDone
    /\ c.eng = "ok" /\ c.reg /\ c.cancelled

\* C14: when WaitForCacheSync does not report the cache synced, Run returns
\* the sync error; it reaches g.Wait only with a synced cache.
C14_SyncTimeoutIsFatal ==
  /\ [](\A p \in Provs : prov[p].pc = "wait" => wc.synced)
  /\ [][\A p \in Provs :
         (prov[p].pc = "sync" /\ prov'[p].pc # "sync" /\ ~wc.synced) =>
           prov'[p].pc = "ret" /\ prov'[p].err = "sync"]_vars

\* C14 witness: Run has returned the sync error while the cache, started by
\* its own task, is running but not synced.
C14_Witness ==
  \E p \in Provs :
    /\ prov[p].pc = "ret"
    /\ prov[p].err = "sync"
    /\ prov[p].task = "running"
    /\ ~wc.synced

\* Run of provider.go leaves g.Wait only after the Start task returned.
RunBlocksInWait ==
  [][\A p \in Provs :
       (prov[p].pc = "wait" /\ prov'[p].pc # "wait") =>
         prov[p].task \in {"nil", "err"}]_vars

\* the contexts and registry entries a provider holds for identity Y
CtxsOf(pr, Y) == {c \in pr.ctxs : c.name = Y}

\* C16: a step in which the add handler of a registered provider ends with a
\* failed Engage for X leaves Run where it is, the run context and the Start
\* task as they are, the handler registered, and the registry entries and
\* contexts of every other identity unchanged.
C16_EngageFailureContained ==
  [][\A p \in Provs : \A c \in prov'[p].ctxs \ prov[p].ctxs :
       (prov[p].handler /\ c.eng = "err") =>
         /\ prov'[p].pc = prov[p].pc
         /\ prov'[p].err = prov[p].err
         /\ prov'[p].ctxDone = prov[p].ctxDone
         /\ prov'[p].task = prov[p].task
         /\ prov'[p].handler
         /\ \A Y \in Names \ {c.name} :
              /\ EntryOf(prov'[p].clusters, Y) = EntryOf(prov[p].clusters, Y)
              /\ EntryOf(prov'[p].cancelFns, Y) = EntryOf(prov[p].cancelFns, Y)
              /\ CtxsOf(prov'[p], Y) = CtxsOf(prov[p], Y)]_vars

\* C16 witness: Engage failed for X, and a later add event for X was
\* processed: X is registered with a live context while Run is still in
\* g.Wait and the run context is not cancelled.
C16_Witness ==
  \E p \in Provs : \E c, d \in prov[p].ctxs :
    /\ c.eng = "err"
    /\ d.name = c.name /\ d.eng = "ok" /\ d.reg /\ ~d.cancelled
    /\ prov[p].pc = "wait"
    /\ ~prov[p].ctxDone

\* C20: Start is called on the wildcard cache at most once.
C20_StartedAtMostOnce == wc.calls <= 1

\* C15: after a successful initial sync Run has not returned unless the run
\* context is cancelled or the cache's Start task has returned (the Run of the
\* earlier Provider).
C15_RunBlocksUntilDone ==
  wsRun.pc = "done" => wsRun.ctxDone \/ wsRun.cache = "stopped"

\* the three maps of the tracker
Categories == {"Structured", "Unstructured", "Metadata"}

\* C13: an informer the tracker holds for a kind in a category is never
\* replaced or removed; a NewInformer call for a kind and category that
\* already have one panics and leaves the three maps as they are, and a call
\* for a free one stores exactly the informer it constructed. No informer is
\* held under two entries.
C13_OneInformerPerKind ==
  /\ [](\A c, d \in Categories : \A k \in DOMAIN tracker[c], j \in DOMAIN tracker[d] :
          tracker[c][k] = tracker[d][j] => c = d /\ k = j)
  /\ [][\A c \in Categories : \A k \in DOMAIN tracker[c] :
          k \in DOMAIN tracker'[c] /\ tracker'[c][k] = tracker[c][k]]_vars
  /\ [][trMade' # trMade =>
          IF trCall'.kind \in DOMAIN tracker[trCall'.cat]
            THEN /\ trCall'.out = "panic-exists"
                 /\ \A c \in Categories : tracker'[c] = tracker[c]
            ELSE /\ trCall'.out = "returned"
                 /\ tracker'[trCall'.cat] =
                      MapPut(tracker[trCall'.cat], trCall'.kind, trMade')
                 /\ \A c \in Categories \ {trCall'.cat} : tracker'[c] = tracker[c]]_vars

\* C13 witness: a second registration for a kind and category panicked, and
\* the map still holds the first informer, not the one just constructed.
C13_Witness ==
  /\ trCall.out = "panic-exists"
  /\ trCall.kind \in DOMAIN tracker[trCall.cat]
  /\ tracker[trCall.cat][trCall.kind] < trCall.inf

\* the rollback statements of an add handler whose Engage call failed
RollbackPcs == {"a_rb_lock", "a_rb_cancel", "a_rb_check", "a_rb_del1",
                "a_rb_del2", "a_rb_unlock"}

\* C29: a step of the rollback of handler t, which created cluster cl for X,
\* cancels no context but cl's and changes no registry entry that holds
\* another cluster: a replacement registered for X since, its cancel function
\* and its context stay as they are.
C29_RollbackOnlyOwn ==
  [][\A t \in Tids :
       (h[t].pc \in RollbackPcs /\ h'[t] # h[t]) =>
         /\ \A i \in Ids \ {h[t].cl} : ctxs'[i] = ctxs[i]
         /\ \A Y \in Names :
              /\ EntryOf(clusters, Y) # h[t].cl =>
                   EntryOf(clusters', Y) = EntryOf(clusters, Y)
              /\ EntryOf(cancelFns, Y) # h[t].cl =>
                   EntryOf(cancelFns', Y) = EntryOf(cancelFns, Y)]_vars

\* C29 witness: the rollback of t has run to its end while the registry holds
\* for the same identity a cluster another add event created; that cluster's
\* context is not cancelled, t's own is.
C29_Witness ==
  \E t \in Tids :
    /\ h[t].pc = "a_rb_unlock"
    /\ ctxs[h[t].cl].cancelled
    /\ Lookup(NameOf(t)) \notin {0, h[t].cl}
    /\ EntryOf(cancelFns, NameOf(t)) = Lookup(NameOf(t))
    /\ ~ctxs[Lookup(NameOf(t))].cancelled

\* C30: when an add handler enters Engage with the cluster cl it created for
\* X, the registry holds cl under X, so that Get(X) answers cl, unless a
\* delete handler has disengaged cl in between (cl's context is cancelled).
C30_RegisteredBeforeEngage ==
  [][\A t \in Tids :
       (h[t].pc = "a_engage" /\ h'[t].pc = "a_in_engage") =>
         \/ Lookup(NameOf(t)) = h[t].cl /\ EntryOf(cancelFns, NameOf(t)) = h[t].cl
         \/ ctxs[h[t].cl].cancelled]_vars

\* C30 witness: Engage is running for cl and a Get for the same identity,
\* made meanwhile, has answered cl.
C30_Witness ==
  \E t \in Tids :
    /\ h[t].pc = "a_in_engage"
    /\ get.pc = "g_ret"
    /\ get.name = NameOf(t)
    /\ get.res = h[t].cl
    /\ ~ctxs[h[t].cl].cancelled

\* C28: the delete handler takes the identity of a tombstone from the object
\* the tombstone holds and goes on as for a plain delete of that object: it
\* disengages exactly when the cluster index has no key for that identity, and
\* what it then cancels and removes is the registration of that identity. For
\* a payload of neither form it returns at once. Decoding changes neither the
\* registry nor any context.
C28_TombstoneAsPlainDelete ==
  /\ [][\A t \in Tids :
          (h[t].pc = "d_decode" /\ h'[t] # h[t]) =>
            /\ clusters' = clusters /\ cancelFns' = cancelFns /\ ctxs' = ctxs
            /\ IF h[t].raw \in {"object", "tombstone"}
                 THEN h'[t] = [h[t] EXCEPT !.pc = "d_index"]
                 ELSE h'[t] = IdleH]_vars
  /\ [][\A t \in Tids :
          (h[t].pc = "d_index" /\ h'[t] # h[t] /\ h[t].raw = "tombstone") =>
            IF IndexKeys(store, From(h[t].obj)) = {}
              THEN h'[t] = [h[t] EXCEPT !.pc = "d_lock"]
              ELSE h'[t] = IdleH]_vars
  /\ [](\A t \in Tids :
          (h[t].raw = "tombstone" /\ h[t].cl # 0) =>
            ctxs[h[t].cl].name = From(h[t].obj))
  /\ [](\A t \in Tids :
          h[t].pc \in {"d_index", "d_lock", "d_lookup", "d_cancel", "d_del1",
                       "d_del2", "d_unlock"} => h[t].raw \in {"object", "tombstone"})

\* C28 witness: a delete handler that was given a tombstone has cancelled the
\* context registered for the identity of the object in it and removed the
\* identity from both maps.
C28_Witness ==
  \E t \in Tids :
    /\ h[t].raw = "tombstone"
    /\ h[t].pc = "d_unlock"
    /\ h[t].cl # 0
    /\ ctxs[h[t].cl].cancelled
    /\ ctxs[h[t].cl].eng = "ok"
    /\ From(h[t].obj) \notin DOMAIN clusters \cup DOMAIN cancelFns

\* the registrations whose wrapped handler was called for the last event
Forwarded == {d.reg : d \in delivered}

\* C27: a delete event that carries a tombstone reaches the wrapped handler of
\* exactly the registrations bound to the identity of the object inside the
\* tombstone, once each and as OnDelete: the registrations a plain delete of
\* that object reaches.
C27_TombstoneFilteredByInnerObject ==
  (lastEvent.kind = "delete" /\ IsTombstone(lastEvent.obj)) =>
    /\ Forwarded = {r \in regs : r.bound = From(lastEvent.obj.Obj)}
    /\ Forwarded =
         {r \in regs : Callbacks(r, [kind |-> "delete", obj |-> lastEvent.obj.Obj,
                                     old |-> NoObj]) # {}}
    /\ \A d \in delivered : d.cb = "OnDelete" /\ d.obj = lastEvent.obj
    /\ \A d, f \in delivered : d.reg = f.reg => d = f

\* C27 witness: a tombstone for an object of one identity was delivered while
\* handlers bound to that identity and to another one were registered through
\* AddEventHandler; the first was called, the second was not.
C27_Witness ==
  /\ lastEvent.kind = "delete"
  /\ IsTombstone(lastEvent.obj)
  /\ \E r \in Forwarded : ~r.resync /\ r.bound = From(lastEvent.obj.Obj)
  /\ \E r \in regs \ Forwarded : ~r.resync /\ r.bound # From(lastEvent.obj.Obj)

\* C21: a call of scopedCache.Start, scopedCache.RemoveInformer,
\* scopedInformer.AddIndexers or scopedCluster.Start can be made in every
\* state, before and after the shared informer exists; it returns an error and
\* leaves the shared informer, its store and indexes, the handler
\* registrations, the informer tracker, the wildcard cache and the cluster
\* registries as they are.
C21_UnsupportedAlwaysFail ==
  /\ [](\A op \in UnsupportedOps, c \in Names :
          \/ ENABLED CallUnsupported(op, c)
          \/ rd.op = op /\ rd.bound = c /\ rd.err = UnsupportedErr(op))
  /\ [](rd.op \in UnsupportedOps => rd.err # "" /\ rd.res = {})
  /\ [][(rd' # rd /\ rd'.op \in UnsupportedOps) =>
          UNCHANGED << informer, infStore, infIndex, regs, tracker, wc, prov,
                       clusters, cancelFns >>]_vars

\* C21 witness: RemoveInformer was called on a scoped cache while the shared
\* informer holds objects and has handlers registered; it returned its error
\* and the informer is still there.
C21_Witness ==
  /\ rd.op = "scopedCache.RemoveInformer"
  /\ rd.err = scopedCacheRemoveInformer
  /\ informer # "none"
  /\ DOMAIN infStore # {}
  /\ regs # {}

\* C22: when Provider.Get does not find the identity, the error it returns is
\* classified as NotFound.
C22_NotFoundIsTyped ==
  (get.pc = "g_ret" /\ get.res = 0) => "NotFound" \in get.err.is

\* C23: a GetAPIReader call on the scoped cluster of c returns, without error,
\* the scoped cache bound to c, the reader GetCache and GetFieldIndexer return.
C23_APIReaderIsScopedCache ==
  rd.op = "scopedCluster.GetAPIReader" =>
    /\ rd.err = ""
    /\ rd.name = scopedClusterGetCache(rd.bound).reader

\* s begins with p
HasPrefix(s, p) == Len(s) >= Len(p) /\ SubSeq(s, 1, Len(p)) = p

\* C24: for an extractor result of n values and an object of cluster c the
\* index function returns 2n keys: the n keys c/v in the order of the values,
\* then the n keys */v; no key begins with the name of another cluster.
C24_IndexKeys ==
  ixCall # NoIxCall =>
    LET n == Len(ixCall.keys)
        c == NameStr(From(ixCall.obj))
    IN  /\ Len(ixCall.out) = 2 * n
        /\ \A i \in 1 .. n :
             /\ ixCall.out[i] = c \o << "/" >> \o ixCall.keys[i]
             /\ ixCall.out[n + i] = << "*", "/" >> \o ixCall.keys[i]
        /\ \A i \in 1 .. 2 * n : \A d \in Names \ {From(ixCall.obj)} :
             ~HasPrefix(ixCall.out[i], NameStr(d) \o << "/" >>)

\* C24 witness: the extractor returned ["v1", "v2"] for an object of c1 and
\* the index function returned c1/v1, c1/v2, */v1, */v2.
C24_Witness ==
  /\ From(ixCall.obj) = "c1"
  /\ ixCall.keys = << << "v", "1" >>, << "v", "2" >> >>
  /\ ixCall.out = << << "c", "1", "/", "v", "1" >>, << "c", "1", "/", "v", "2" >>,
                     << "*", "/", "v", "1" >>, << "*", "/", "v", "2" >> >>

\* the adapter took a step
Handled == queue' # queue \/ evt' # evt

\* C25: a Create, Delete or Generic event with a non-nil object appends to
\* the queue one request, whose ClusterName is the object's kcp.io/cluster
\* annotation and whose NamespacedName is the object's namespace and name; an
\* event with a nil object leaves the queue as it is.
C25_EnqueueOne ==
  [][(Handled /\ evt'.kind \in {"create", "delete", "generic"}) =>
       IF evt'.obj.isNil
         THEN queue' = queue
         ELSE queue' = queue \o
                << [ClusterName |->
                      IF "kcp.io/cluster" \in DOMAIN evt'.obj.annotations
                        THEN evt'.obj.annotations["kcp.io/cluster"] ELSE "",
                    Namespace |-> evt'.obj.namespace,
                    Name |-> evt'.obj.name] >>]_vars

\* C25 witness: a delete event for the object foo of namespace ns, annotated
\* with cluster c1, has put the one request c1, ns/foo into the queue.
C25_Witness ==
  /\ evt.kind = "delete"
  /\ ~evt.obj.isNil
  /\ queue = << [ClusterName |-> "c1", Namespace |-> "ns", Name |-> "foo"] >>
  /\ evt.obj.name = "foo"

\* C26: an Update event appends one request built from the new object when
\* that is non-nil, else one built from the old object when that is non-nil,
\* else nothing; never more than one.
C26_UpdatePrefersNew ==
  [][(Handled /\ evt'.kind = "update") =>
       /\ Len(queue') <= Len(queue) + 1
       /\ queue' =
            IF ~evt'.obj.isNil THEN Append(queue, RequestFor(evt'.obj))
            ELSE IF ~evt'.old.isNil THEN Append(queue, RequestFor(evt'.old))
            ELSE queue]_vars

\* C26 witness: an update whose new object is nil and whose old object
\* belongs to c2 has added the request built from the old object.
C26_Witness ==
  /\ evt.kind = "update"
  /\ evt.obj.isNil
  /\ ~evt.old.isNil
  /\ Len(queue) = 1
  /\ queue[1] = RequestFor(evt.old)
  /\ queue[1].ClusterName = "c2"

\* the add handler t is at one of its two looks at the registry and finds its
\* identity registered
SeesRegistered(t) ==
  /\ h[t].pc \in {"a_fast", "a_recheck"}
  /\ NameOf(t) \in DOMAIN clusters

\* C31: an add handler that finds its identity in the registry (on the fast
\* path under the read lock, or at the re-check under the write lock) returns
\* in that very step: it has built no cluster and created no context, no
\* context changes (no Engage, no cancel), both maps stay as they are, and
\* the lock it held is released.
C31_RegisteredAddIsNoOp ==
  [][\A t \in Tids :
       (SeesRegistered(t) /\ h'[t] # h[t]) =>
         /\ h'[t] = IdleH
         /\ h[t].cl = 0
         /\ ctxs' = ctxs
         /\ clusters' = clusters
         /\ cancelFns' = cancelFns
         /\ t \notin lockReaders'
         /\ lockWriter' # t]_vars

\* C31 witness: a second add event for a registered identity (another object
\* of the same logical cluster) is at the re-check under the write lock,
\* while the cluster registered for it is engaged and live.
C31_Witness ==
  \E t \in Tids :
    /\ h[t].pc = "a_recheck"
    /\ lockWriter = t
    /\ NameOf(t) \in DOMAIN clusters
    /\ ctxs[clusters[NameOf(t)]].eng = "ok"
    /\ ~ctxs[clusters[NameOf(t)]].cancelled

\* the context an add handler made for an attempt whose construction failed
FailedAttempt(X) == [name |-> X, built |-> FALSE, eng |-> "no", cancelled |-> TRUE]

\* C32: the step in which newScopedCluster fails ends the handler, leaves both
\* maps unchanged, adds one context for the attempt which is cancelled and
\* was never given to Engage, and releases the write lock; such a context
\* stays cancelled, is never engaged and is never in the registry.
C32_ConstructionFailure ==
  /\ [][\A t \in Tids :
          (h[t].pc = "a_new" /\ h'[t] = IdleH) =>
            /\ clusters' = clusters
            /\ cancelFns' = cancelFns
            /\ ctxs' = Append(ctxs, FailedAttempt(NameOf(t)))
            /\ lockWriter = t
            /\ lockWriter' = 0]_vars
  /\ [](\A i \in Ids :
          ~ctxs[i].built =>
            /\ ctxs[i] = FailedAttempt(ctxs[i].name)
            /\ \A X \in DOMAIN clusters : clusters[X] # i
            /\ \A X \in DOMAIN cancelFns : cancelFns[X] # i)

\* C32 witness: after the construction for X failed, a later add event for X
\* took the write lock, built and registered a cluster for X and is inside
\* Engage with a live context.
C32_Witness ==
  \E t \in Tids, j \in Ids :
    /\ h[t].pc = "a_in_engage"
    /\ j < h[t].cl
    /\ ctxs[j] = FailedAttempt(NameOf(t))
    /\ \A i \in Ids : ctxs[i].name = NameOf(t) => i \in {j, h[t].cl}
    /\ Lookup(NameOf(t)) = h[t].cl
    /\ ~ctxs[h[t].cl].cancelled
    /\ lockWriter = 0

\* the identity an event of the shared stream is filtered on: that of its
\* object (the new object of an update, the object inside a tombstone)
EventIdentity(ev) == From(IF IsTombstone(ev.obj) THEN ev.obj.Obj ELSE ev.obj)
\* the callback of the same kind as the event
CallbackOf(ev) ==
  CASE ev.kind = "add" -> "OnAdd"
    [] ev.kind = "update" -> "OnUpdate"
    [] ev.kind = "delete" -> "OnDelete"
StreamEvent == lastEvent.kind \in {"add", "update", "delete"}

\* C33: after every add, update or delete event of the shared stream, each
\* registration bound to the identity of the event's object has received
\* exactly one callback, of the event's kind and with the event's payload,
\* every other registration has received none, and a registration made with
\* AddEventHandlerWithResyncPeriod decides as one made with AddEventHandler.
C33_ForwardedExactlyOnce ==
  StreamEvent =>
    /\ \A r \in regs :
         {d \in delivered : d.reg = r} =
           IF r.bound = EventIdentity(lastEvent)
           THEN {[reg |-> r, cb |-> CallbackOf(lastEvent), obj |-> lastEvent.obj,
                  old |-> lastEvent.old]}
           ELSE {}
    /\ \A i \in Names :
         Callbacks([bound |-> i, resync |-> TRUE], lastEvent) =
           Callbacks([bound |-> i, resync |-> FALSE], lastEvent)

\* C33 witness: an update whose old and new object belong to different
\* identities was delivered while the new object's identity had a handler of
\* each registration method and the old object's identity had one as well;
\* the first two were called, the third was not.
C33_Witness ==
  /\ lastEvent.kind = "update"
  /\ From(lastEvent.old) # From(lastEvent.obj)
  /\ \E r, q \in Forwarded :
       r.resync /\ ~q.resync /\ r.bound = From(lastEvent.obj) /\ q.bound = r.bound
  /\ \E r \in regs \ Forwarded : r.bound = From(lastEvent.old)

\* the clusters in the registry whose own cancel function has been called
CancelledInRegistry == {X \in DOMAIN clusters : ctxs[clusters[X]].cancelled}

\* C34 as stated: in every reachable state no cluster in the registry has had
\* its cancel function called.
C34_NoCancelledInRegistry == CancelledInRegistry = {}

\* C34, amended: in every state in which no handler holds the write lock no
\* cluster in the registry has had its cancel function called; a cancelled
\* cluster is in the registry only inside the critical section of the
\* handler that cancelled it, which goes on to remove it; and the cluster
\* Provider.Get returns is not cancelled when Get returns it.
C34_NoCancelledOutsideCriticalSection ==
  /\ lockWriter = 0 => CancelledInRegistry = {}
  /\ \A X \in CancelledInRegistry :
       /\ lockWriter \in Tids
       /\ NameOf(lockWriter) = X
       /\ h[lockWriter].cl = clusters[X]
       /\ h[lockWriter].pc \in {"a_rb_check", "a_rb_del1", "d_del1", "d_del2"}
  /\ (get.pc = "g_ret" /\ get.res # 0) => ~ctxs[get.res].cancelled

\* C34 witness: Get holds the read lock and returns the live cluster of X
\* after an earlier cluster of X was cancelled and removed by the rollback of
\* a failed Engage or by a delete handler.
C34_Witness ==
  /\ get.pc = "g_ret"
  /\ get.res # 0
  /\ lockWriter = 0
  /\ \E j \in Ids :
       /\ j # get.res
       /\ ctxs[j].name = get.name
       /\ ctxs[j].built
       /\ ctxs[j].cancelled

\* the contexts made for X whose cancel function has not been called, and
\* those among them that were handed to Engage
LiveCtxs(X) == {i \in Ids : ctxs[i].name = X /\ ~ctxs[i].cancelled}
LiveEngagements(X) == {i \in LiveCtxs(X) : ctxs[i].eng \in {"in", "ok"}}

\* C35 as stated: at any time X has at most one context that is not
\* cancelled, that context is the one of the cluster registered for X, and
\* the engine holds at most one live engagement for X.
C35_OneLiveContext ==
  \A X \in Names :
    /\ Cardinality(LiveCtxs(X)) <= 1
    /\ LiveCtxs(X) \subseteq {Lookup(X)}
    /\ Cardinality(LiveEngagements(X)) <= 1

\* C35, amended: at any time X has at most one context that is not cancelled
\* and the engine holds at most one live engagement for X; the live context
\* is the one of the cluster registered for X, or the one the add handler
\* that holds the write lock has just made and is about to register.
C35_OneLiveContextRegisteredOrPending ==
  \A X \in Names :
    /\ Cardinality(LiveCtxs(X)) <= 1
    /\ Cardinality(LiveEngagements(X)) <= 1
    /\ LiveEngagements(X) \subseteq {Lookup(X)}
    /\ \A i \in LiveCtxs(X) :
         \/ Lookup(X) = i
         \/ /\ lockWriter \in Tids
            /\ h[lockWriter].pc = "a_put1"
            /\ h[lockWriter].cl = i

\* C35 witness: the live context of X is the registered one and is engaged,
\* after an earlier cluster of X was engaged, then cancelled and removed by a
\* delete handler.
C35_Witness ==
  \E X \in Names, j \in Ids :
    /\ LiveEngagements(X) = {Lookup(X)}
    /\ ctxs[Lookup(X)].eng = "ok"
    /\ j # Lookup(X)
    /\ ctxs[j].name = X /\ ctxs[j].cancelled /\ ctxs[j].eng = "ok"

\* C36: whenever all handlers have finished and the discovery index holds no
\* object of X, X is not in the registry and no context of X is live.
C36_GoneStaysDisengaged ==
  \A X \in Names :
    (Quiescent /\ IndexKeys(store, X) = {}) =>
      X \notin DOMAIN clusters /\ LiveCtxs(X) = {}

\* C38: when Run has returned the sync error, its run context is cancelled
\* (the Start task it launched was told to stop) and the task is neither
\* waiting to start nor running.
C38_SyncFailureStopsTask ==
  \A p \in Provs :
    (prov[p].pc = "ret" /\ prov[p].err = "sync") =>
      /\ prov[p].ctxDone
      /\ prov[p].task \notin {"go", "running"}

\* the add handler of provider pr has run for identity X: X is registered, or
\* a context made for X records a failed construction or a failed Engage
Observed(pr, X) ==
  \/ X \in DOMAIN pr.clusters
  \/ \E c \in CtxsOf(pr, X) : c.eng \in {"no", "err"}

C39_TrackerLockReleased ==
  trCall.op # "none" => tracker.lock = "free"

\* the event the adapter is given when a scoped informer forwards callback c
AdapterEvent(c) ==
  CASE c.cb = "OnAdd" -> [kind |-> "create", obj |-> AsEvtObject(c.obj), old |-> Nil]
    [] c.cb = "OnUpdate" ->
         [kind |-> "update", obj |-> AsEvtObject(c.obj), old |-> AsEvtObject(c.old)]
    [] c.cb = "OnDelete" ->
         [kind |-> "delete",
          obj |-> AsEvtObject(IF IsTombstone(c.obj) THEN c.obj.Obj ELSE c.obj),
          old |-> Nil]
\* the add, update and delete events of the shared stream
StreamEvents ==
  { [kind |-> "add", obj |-> o, old |-> NoObj] : o \in Objs }
    \cup { [kind |-> "update", obj |-> o, old |-> old] : o \in Objs, old \in Objs }
    \cup { [kind |-> "delete", obj |-> o, old |-> NoObj] : o \in Objs }
    \cup { [kind |-> "delete",
            obj |-> DeletedFinalStateUnknown(<< From(o), o.name >>, o),
            old |-> NoObj] : o \in Objs }
\* the scoped informers (their bound identities) that forward some event of
\* the shared stream to the adapter as the event e
ForwardersOf(e) ==
  { i \in Names :
      \E rs \in BOOLEAN, ev \in StreamEvents :
        \E c \in Callbacks([bound |-> i, resync |-> rs], ev) : AdapterEvent(c) = e }
LastRequest == queue[Len(queue)]

\* C40: the request the adapter enqueued for the event a scoped informer
\* forwarded has the ClusterName the informer is bound to, and while that
\* identity is engaged the provider's registry resolves the request's
\* ClusterName to the cluster registered under it.
C40_RoutingIdentity ==
  (evt.kind # "none") =>
    /\ queue # << >>
    /\ ForwardersOf(evt) = {LastRequest.ClusterName}
    /\ \A X \in ForwardersOf(evt) :
         X \in DOMAIN prov[1].clusters =>
           /\ prov[1].clusters[LastRequest.ClusterName] = X
           /\ \E c \in CtxsOf(prov[1], X) : c.reg /\ ~c.cancelled

\* C40 witness: a scoped informer bound to c2 forwarded an update whose old
\* object belonged to c1; the request names c2, c2 is engaged, and the
\* registry resolves c2 to its live cluster.
C40_Witness ==
  /\ evt.kind = "update"
  /\ AnnotationOf(evt.old, "kcp.io/cluster") = "c1"
  /\ LastRequest.ClusterName = "c2"
  /\ "c2" \in DOMAIN prov[1].clusters
  /\ "c1" \notin DOMAIN prov[1].clusters
  /\ \E c \in CtxsOf(prov[1], "c2") : c.reg /\ ~c.cancelled

====
